---- MODULE Spec2Model ----
(***************************************************************************)
(* Model of the backend of yamanote-station-finder: DiagnosticService      *)
(* (session store, answer submission, profile aggregation with its cache), *)
(* the diagnostic routes that drive it, and RecommendationService (station *)
(* scoring, ranking and explanation) over the catalog of StationService.   *)
(*                                                                         *)
(* Conventions                                                             *)
(*  - A string identifier is the sequence of its '_'-separated tokens      *)
(*    ("priority_01" is <<"priority", "01">>), so that                     *)
(*    String.prototype.includes on a whole token is membership in the      *)
(*    sequence. The empty string is <<>>.                                  *)
(*  - A JavaScript number that is a quotient of integers is the reduced    *)
(*    fraction <<numerator, denominator>>.                                 *)
(*  - The category weights 0.5 .. 3.0 are kept in tenths (5 .. 30).        *)
(*  - Answer.timestamp (new Date()) is written by submitAnswer and read    *)
(*    by no operation of the service; an Answer is the pair                *)
(*    (questionId, selectedOption).                                        *)
(*  - Object identity of a UserProfile is its field ref: a new object gets *)
(*    a ref that no object still reachable (held by the store or by the    *)
(*    last caller) has.                                                    *)
(*  - StationService and RecommendationService compute on exact fractions; *)
(*    the rounding of IEEE doubles is outside the model.                   *)
(*  - observed is an observer's record, written by no operation of the     *)
(*    program: the profile it watches and the first list                   *)
(*    generateRecommendations returned for that profile.                   *)
(***************************************************************************)
EXTENDS Integers, Sequences, FiniteSets, TLC

VARIABLES questions, userSessions, stations, result, observed, diagnostic,
          pending

vars == <<questions, userSessions, stations, result, observed, diagnostic,
         pending>>

\* ------------------------------------------------------------------ bounds

\* Longest list of answers a session starts with under SpecProfile.
MaxAnswers == 4

\* Longest catalog of stations under SpecScore.
MaxStations == 4

\* ---------------------------------------------------------------- catalogs

SessionIds == {"s1", "s2"}

Categories == <<"housing", "transport", "commercial", "culture", "price">>

CategorySet == {Categories[i] : i \in 1..Len(Categories)}

Opt(id, value, tags) == [id |-> id, value |-> value, tags |-> tags]

Qn(id, category, weight, options) ==
  [id |-> id, category |-> category, weight |-> weight, options |-> options]

\* A catalog of two questions: a session completes after two answers.
SmallCatalog ==
  << Qn(<<"housing", "01">>, "housing", 2,
        << Opt(<<"housing", "01", "a">>, 5, <<"quiet", "residential">>),
           Opt(<<"housing", "01", "b">>, 3, <<"convenient">>) >>),
     Qn(<<"priority", "01">>, "priority", 1,
        << Opt(<<"priority", "01", "price">>, 5, <<"affordable">>) >>) >>

\* A catalog with several questions per category, distinct weights, tags
\* shared between options, more than five tags in all and the six options of
\* the priority question.
FullCatalog ==
  << Qn(<<"housing", "01">>, "housing", 1,
        << Opt(<<"housing", "01", "a">>, 5, <<"quiet", "residential">>),
           Opt(<<"housing", "01", "b">>, 3, <<"convenient", "nightlife">>) >>),
     Qn(<<"housing", "02">>, "housing", 2,
        << Opt(<<"housing", "02", "a">>, 4, <<"family-friendly", "quiet">>),
           Opt(<<"housing", "02", "b">>, 2, <<"nightlife">>) >>),
     Qn(<<"transport", "01">>, "transport", 1,
        << Opt(<<"transport", "01", "a">>, 5, <<"multi-line", "access">>),
           Opt(<<"transport", "01", "b">>, 4, <<"walkable", "quiet">>) >>),
     Qn(<<"price", "01">>, "price", 3,
        << Opt(<<"price", "01", "a">>, 5, <<"affordable", "rent">>),
           Opt(<<"price", "01", "b">>, 1, <<"convenient", "access">>) >>),
     Qn(<<"priority", "01">>, "priority", 1,
        << Opt(<<"priority", "01", "housing">>, 5, <<"residential">>),
           Opt(<<"priority", "01", "transport">>, 5, <<"access">>),
           Opt(<<"priority", "01", "commercial">>, 5, <<"shopping">>),
           Opt(<<"priority", "01", "culture">>, 5, <<"nightlife">>),
           Opt(<<"priority", "01", "price">>, 5, <<"affordable">>),
           Opt(<<"priority", "01", "none">>, 1, <<>>) >>) >>

\* ----------------------------------------------------------------- helpers

Range(s) == {s[i] : i \in 1..Len(s)}

\* String.prototype.includes for a whole token.
Includes(str, token) == \E i \in 1..Len(str) : str[i] = token

RECURSIVE GCD(_, _)
GCD(a, b) == IF b = 0 THEN a ELSE GCD(b, a % b)

\* The number n / d (d > 0) as a reduced fraction.
Frac(n, d) == <<n \div GCD(n, d), d \div GCD(n, d)>>

\* The integer v as a number.
Num(v) == <<v, 1>>

Min(a, b) == IF a < b THEN a ELSE b

\* ------------------------------------------------------- DiagnosticService

\* A session record without a computed profile: profile is undefined.
NoProfile == [ref |-> 0]

NewSession == [answers |-> <<>>, profile |-> NoProfile]

Answer(questionId, selectedOptionId) ==
  [questionId |-> questionId, selectedOption |-> selectedOptionId]

\* this.questions.find(q => q.id === questionId): index of the first match, 0 if none.
FindQuestion(questionId) ==
  IF \E i \in 1..Len(questions) : questions[i].id = questionId
  THEN CHOOSE i \in 1..Len(questions) :
         /\ questions[i].id = questionId
         /\ \A j \in 1..(i - 1) : questions[j].id # questionId
  ELSE 0

\* question.options.find(opt => opt.id === optionId): index of the first match, 0 if none.
FindOption(question, optionId) ==
  IF \E i \in 1..Len(question.options) : question.options[i].id = optionId
  THEN CHOOSE i \in 1..Len(question.options) :
         /\ question.options[i].id = optionId
         /\ \A j \in 1..(i - 1) : question.options[j].id # optionId
  ELSE 0

\* Mutant of ReplaceAnswer: the list is overwritten with the new answer.
ReplaceAnswerOnly(answers, answer) == <<answer>>

\* Mutant of ReplaceAnswer: the new answer is pushed without removing the earlier one.
ReplaceAnswerNoFilter(answers, answer) == Append(answers, answer)

\* Remove any existing answer for this question and add the new one.
ReplaceAnswer(answers, answer) ==
  Append(SelectSeq(answers, LAMBDA a : a.questionId # answer.questionId), answer)

\* Mutant of SubmitAnswerCall: the selected option is not validated.
SubmitAnswerCallNoOptionCheck(sessions, sessionId, questionId, selectedOptionId) ==
  LET store1 == IF sessionId \in DOMAIN sessions
                THEN sessions
                ELSE sessions @@ (sessionId :> NewSession)
      answers == ReplaceAnswer(store1[sessionId].answers,
                               Answer(questionId, selectedOptionId))
  IN  IF FindQuestion(questionId) = 0
      THEN [store |-> store1, error |-> "UnknownQuestion", value |-> <<>>]
      ELSE [store |-> [store1 EXCEPT ![sessionId].answers = answers],
            error |-> "none", value |-> answers]

\* submitAnswer on the store `sessions`: the store afterwards, the error thrown
\* ("none" when it returns) and the returned answer array.
SubmitAnswerCall(sessions, sessionId, questionId, selectedOptionId) ==
  LET store1 == IF sessionId \in DOMAIN sessions
                THEN sessions
                ELSE sessions @@ (sessionId :> NewSession)
      session == store1[sessionId]
      qi == FindQuestion(questionId)
  IN  IF qi = 0
      THEN [store |-> store1, error |-> "UnknownQuestion", value |-> <<>>]
      ELSE IF FindOption(questions[qi], selectedOptionId) = 0
      THEN [store |-> store1, error |-> "UnknownOption", value |-> <<>>]
      ELSE LET answers == ReplaceAnswer(session.answers,
                                        Answer(questionId, selectedOptionId))
           IN  [store |-> [store1 EXCEPT ![sessionId].answers = answers],
                error |-> "none",
                value |-> answers]

\* The answers the two aggregation loops of getUserProfile process: the
\* question is found, is not a priority question, and the option is found.
Scored(answer) ==
  LET qi == FindQuestion(answer.questionId)
  IN  /\ qi # 0
      /\ questions[qi].category # "priority"
      /\ FindOption(questions[qi], answer.selectedOption) # 0

QuestionOf(answer) == questions[FindQuestion(answer.questionId)]

OptionOf(answer) ==
  QuestionOf(answer).options[FindOption(QuestionOf(answer), answer.selectedOption)]

\* preferences[category] after the accumulation loop: sum of value * weight.
RECURSIVE WeightedScoreSum(_, _)
WeightedScoreSum(answers, category) ==
  IF answers = <<>> THEN 0
  ELSE (IF Scored(Head(answers)) /\ QuestionOf(Head(answers)).category = category
        THEN OptionOf(Head(answers)).value * QuestionOf(Head(answers)).weight
        ELSE 0) + WeightedScoreSum(Tail(answers), category)

\* categoryWeights[category] after the accumulation loop: sum of weight.
RECURSIVE WeightSum(_, _)
WeightSum(answers, category) ==
  IF answers = <<>> THEN 0
  ELSE (IF Scored(Head(answers)) /\ QuestionOf(Head(answers)).category = category
        THEN QuestionOf(Head(answers)).weight
        ELSE 0) + WeightSum(Tail(answers), category)

\* Mutant of Preferences: the sums are not normalized by the summed weights.
PreferencesNotNormalized(answers) ==
  [c \in CategorySet |-> Num(WeightedScoreSum(answers, c))]

\* The preferences of the profile: normalized by total weight in each category.
Preferences(answers) ==
  [c \in CategorySet |->
     IF WeightSum(answers, c) > 0
     THEN Frac(WeightedScoreSum(answers, c), WeightSum(answers, c))
     ELSE Num(WeightedScoreSum(answers, c))]

\* Mutant of UserCategoryWeights: the price preset is checked before the
\* housing preset, so the housing preset overwrites price = 3.0 with 2.0.
UserCategoryWeightsNoPriceBoost(answers) ==
  LET pi == IF \E i \in 1..Len(answers) : answers[i].questionId = <<"priority", "01">>
            THEN CHOOSE i \in 1..Len(answers) :
                   /\ answers[i].questionId = <<"priority", "01">>
                   /\ \A j \in 1..(i - 1) : answers[j].questionId # <<"priority", "01">>
            ELSE 0
  IN  IF pi = 0 THEN [c \in CategorySet |-> 10]
      ELSE LET selectedOption == answers[pi].selectedOption
           IN  IF Includes(selectedOption, "none") THEN [c \in CategorySet |-> 10]
               ELSE [c \in CategorySet |->
                       IF Includes(selectedOption, c) THEN 20
                       ELSE IF c = "price" /\ Includes(selectedOption, "housing") THEN 20
                       ELSE 5]

\* userCategoryWeights, in tenths: 1.0 everywhere without an answer to
\* 'priority_01'; otherwise 0.5 everywhere, then the presets applied in the
\* order of the source (each later assignment overwrites the earlier ones).
UserCategoryWeights(answers) ==
  LET pi == IF \E i \in 1..Len(answers) : answers[i].questionId = <<"priority", "01">>
            THEN CHOOSE i \in 1..Len(answers) :
                   /\ answers[i].questionId = <<"priority", "01">>
                   /\ \A j \in 1..(i - 1) : answers[j].questionId # <<"priority", "01">>
            ELSE 0
  IN  IF pi = 0 THEN [c \in CategorySet |-> 10]
      ELSE
        LET selectedOption == answers[pi].selectedOption
            w0 == [c \in CategorySet |-> 5]
            w1 == IF Includes(selectedOption, "housing")
                  THEN [w0 EXCEPT !["housing"] = 20, !["price"] = 20] ELSE w0
            w2 == IF Includes(selectedOption, "transport")
                  THEN [w1 EXCEPT !["transport"] = 20] ELSE w1
            w3 == IF Includes(selectedOption, "commercial")
                  THEN [w2 EXCEPT !["commercial"] = 20] ELSE w2
            w4 == IF Includes(selectedOption, "culture")
                  THEN [w3 EXCEPT !["culture"] = 20] ELSE w3
            w5 == IF Includes(selectedOption, "price")
                  THEN [w4 EXCEPT !["price"] = 30, !["housing"] = 25] ELSE w4
        IN  IF Includes(selectedOption, "none") THEN [c \in CategorySet |-> 10] ELSE w5

\* tagCounts.set(tag, (tagCounts.get(tag) || 0) + weight) on a Map kept as the
\* sequence of its entries in insertion order.
AddTag(tagCounts, tag, weight) ==
  IF \E i \in 1..Len(tagCounts) : tagCounts[i].tag = tag
  THEN [i \in 1..Len(tagCounts) |->
          IF tagCounts[i].tag = tag
          THEN [tag |-> tag, count |-> tagCounts[i].count + weight]
          ELSE tagCounts[i]]
  ELSE Append(tagCounts, [tag |-> tag, count |-> weight])

\* for (const tag of selectedOption.tags) ...
RECURSIVE AddTags(_, _, _)
AddTags(tagCounts, tags, weight) ==
  IF tags = <<>> THEN tagCounts
  ELSE AddTags(AddTag(tagCounts, Head(tags), weight), Tail(tags), weight)

\* The tag loop over the answers, from the Map `tagCounts` on.
RECURSIVE TagCounts(_, _)
TagCounts(tagCounts, answers) ==
  IF answers = <<>> THEN tagCounts
  ELSE TagCounts(
         IF Scored(Head(answers))
         THEN AddTags(tagCounts, OptionOf(Head(answers)).tags,
                      QuestionOf(Head(answers)).weight)
         ELSE tagCounts,
         Tail(answers))

\* Insert entry e into a sequence sorted by descending count, behind every
\* entry whose count is not smaller (the sort is stable).
InsertByCount(sorted, e) ==
  LET k == Cardinality({i \in 1..Len(sorted) : sorted[i].count >= e.count})
  IN  SubSeq(sorted, 1, k) \o <<e>> \o SubSeq(sorted, k + 1, Len(sorted))

\* Array.prototype.sort((a, b) => b[1] - a[1]): stable, descending by count.
RECURSIVE SortByCount(_, _)
SortByCount(sorted, entries) ==
  IF entries = <<>> THEN sorted
  ELSE SortByCount(InsertByCount(sorted, Head(entries)), Tail(entries))

\* .slice(0, 5)
MaxPriorities == 5

\* Mutant of Priorities: the tags are taken in insertion order, unsorted.
PrioritiesUnsorted(answers) ==
  LET entries == TagCounts(<<>>, answers)
      top == SubSeq(entries, 1, Min(MaxPriorities, Len(entries)))
  IN  [i \in 1..Len(top) |-> top[i].tag]

\* priorities: the tags of the five greatest tallies.
Priorities(answers) ==
  LET sorted == SortByCount(<<>>, TagCounts(<<>>, answers))
      top == SubSeq(sorted, 1, Min(MaxPriorities, Len(sorted)))
  IN  [i \in 1..Len(top) |-> top[i].tag]

\* The profile object getUserProfile creates from the session's answers.
NewProfile(ref, answers) ==
  [ref |-> ref,
   preferences |-> Preferences(answers),
   priorities |-> Priorities(answers),
   categoryWeights |-> UserCategoryWeights(answers),
   answers |-> answers]

\* Mutant of CachedProfile: the cache is never consulted.
CachedProfileIgnored(session) == NoProfile

\* if (session.profile) return session.profile
CachedProfile(session) == session.profile

\* Mutant of GetUserProfileCall: a session the store does not hold is treated
\* as a new, empty session.
GetUserProfileCallEmptySession(sessions, ref, sessionId) ==
  LET store1 == IF sessionId \in DOMAIN sessions
                THEN sessions
                ELSE sessions @@ (sessionId :> NewSession)
  IN  IF CachedProfile(store1[sessionId]) # NoProfile
      THEN [store |-> store1, error |-> "none",
            value |-> CachedProfile(store1[sessionId])]
      ELSE LET profile == NewProfile(ref, store1[sessionId].answers)
           IN  [store |-> [store1 EXCEPT ![sessionId].profile = profile],
                error |-> "none", value |-> profile]

\* getUserProfile on the store `sessions`, a new object getting the identity
\* `ref`: the store afterwards, the error thrown ("none" when it returns) and
\* the returned profile.
GetUserProfileCall(sessions, ref, sessionId) ==
  IF sessionId \notin DOMAIN sessions
  THEN [store |-> sessions, error |-> "SessionNotFound", value |-> NoProfile]
  ELSE IF CachedProfile(sessions[sessionId]) # NoProfile
  THEN [store |-> sessions, error |-> "none",
        value |-> CachedProfile(sessions[sessionId])]
  ELSE LET profile == NewProfile(ref, sessions[sessionId].answers)
       IN  [store |-> [sessions EXCEPT ![sessionId].profile = profile],
            error |-> "none", value |-> profile]

\* Mutant of GetAnswersCall: no default for a session the store does not hold
\* (session?.answers is undefined).
GetAnswersCallNoDefault(sessions, sessionId) ==
  IF sessionId \in DOMAIN sessions THEN sessions[sessionId].answers
  ELSE <<"undefined">>

\* getAnswers
GetAnswersCall(sessions, sessionId) ==
  IF sessionId \in DOMAIN sessions THEN sessions[sessionId].answers ELSE <<>>

\* Mutant of ClearSessionCall: Map.clear, every session is deleted.
ClearSessionCallAll(sessions, sessionId) == <<>>

\* Mutant of ClearSessionCall: the answers are emptied, the record and its
\* cached profile stay.
ClearSessionCallKeepRecord(sessions, sessionId) ==
  IF sessionId \in DOMAIN sessions
  THEN [sessions EXCEPT ![sessionId].answers = <<>>]
  ELSE sessions

\* clearSession: Map.delete
ClearSessionCall(sessions, sessionId) ==
  [s \in DOMAIN sessions \ {sessionId} |-> sessions[s]]

\* Mutant of IsDiagnosticCompleteCall: some question answered is enough.
IsDiagnosticCompleteCallSome(sessions, sessionId) ==
  IF sessionId \notin DOMAIN sessions THEN FALSE
  ELSE \E i \in 1..Len(questions) : \E j \in 1..Len(sessions[sessionId].answers) :
         sessions[sessionId].answers[j].questionId = questions[i].id

\* isDiagnosticComplete
IsDiagnosticCompleteCall(sessions, sessionId) ==
  IF sessionId \notin DOMAIN sessions THEN FALSE
  ELSE LET answeredQuestionIds ==
             {sessions[sessionId].answers[i].questionId :
                i \in 1..Len(sessions[sessionId].answers)}
       IN  \A i \in 1..Len(questions) : questions[i].id \in answeredQuestionIds

\* ---------------------------------------------------------- StationService

\* The train lines a station can connect to.
Lines == <<"JY", "JK", "JC", "JA", "G", "M">>

\* A Station: id, name and the ratings (1..5) of StationFeatures; connections
\* holds the first n of Lines.
St(id, housing, transport, commercial, culture, price) ==
  [id |-> id, name |-> id,
   features |->
     [housing |-> [rentLevel |-> housing[1], familyFriendly |-> housing[2],
                   quietness |-> housing[3]],
      transport |-> [accessibility |-> transport[1],
                     connections |-> SubSeq(Lines, 1, transport[2]),
                     walkability |-> transport[3]],
      commercial |-> [shopping |-> commercial[1], restaurants |-> commercial[2],
                      convenience |-> commercial[3]],
      culture |-> [entertainment |-> culture[1], history |-> culture[2],
                   nightlife |-> culture[3]],
      price |-> [costOfLiving |-> price[1], diningCost |-> price[2]]]]

\* The stations a catalog is drawn from: "a" has every rating 5, six
\* connections and rent level 1; "b" has every rating 1, one connection and
\* rent level 5; "c" and "d" have mixed ratings and differ in their ids only,
\* so they tie under every profile; "e" is cheap, quiet and poorly connected.
StationPool ==
  << St("a", <<1, 5, 5>>, <<5, 6, 5>>, <<5, 5, 5>>, <<5, 5, 5>>, <<5, 5>>),
     St("b", <<5, 1, 1>>, <<1, 1, 1>>, <<1, 1, 1>>, <<1, 1, 1>>, <<1, 1>>),
     St("c", <<3, 4, 2>>, <<5, 3, 4>>, <<5, 4, 3>>, <<2, 4, 1>>, <<2, 4>>),
     St("d", <<3, 4, 2>>, <<5, 3, 4>>, <<5, 4, 3>>, <<2, 4, 1>>, <<2, 4>>),
     St("e", <<2, 3, 5>>, <<2, 2, 3>>, <<2, 3, 4>>, <<1, 3, 2>>, <<1, 2>>) >>

\* The stations of catalog at the indices S, in the order of the catalog.
Pick(catalog, S) ==
  [k \in 1..Cardinality(S) |->
     catalog[CHOOSE i \in S : Cardinality({j \in S : j <= i}) = k]]

Reverse(catalog) == [i \in 1..Len(catalog) |-> catalog[Len(catalog) + 1 - i]]

\* Every catalog of 1..n stations of the pool, in the order of the pool or in
\* the reverse order: stations that tie come in both orders.
StationLists(n) ==
  {Pick(pool, S) :
     <<pool, S>> \in {<<pool, S>> \in {StationPool, Reverse(StationPool)}
                                       \X SUBSET (1..Len(StationPool)) :
                        Cardinality(S) \in 1..n}}

\* stationService.getAllStations(): a copy of the array of stations.
GetAllStations == stations

\* ---------------------------------------------------- RecommendationService

\* Arithmetic on numbers kept as reduced fractions.
Plus(a, b) == Frac(a[1] * b[2] + b[1] * a[2], a[2] * b[2])

Times(a, b) == Frac(a[1] * b[1], a[2] * b[2])

Over(a, b) == Frac(a[1] * b[2], a[2] * b[1])

Less(a, b) == a[1] * b[2] < b[1] * a[2]

MathMin(a, b) == IF Less(b, a) THEN b ELSE a

MathMax(a, b) == IF Less(a, b) THEN b ELSE a

RECURSIVE Sum(_)
Sum(values) == IF values = <<>> THEN 0 ELSE Head(values) + Sum(Tail(values))

\* Math.round(score * 100) / 100 for score >= 0: the nearest hundredth, a half
\* rounded up.
Round2(score) == Frac((200 * score[1] + score[2]) \div (2 * score[2]), 100)

\* userProfile.categoryWeights || { every category: 1.0 }, as numbers. A
\* profile built by a caller may lack the field.
CategoryWeightsOf(userProfile) ==
  IF "categoryWeights" \in DOMAIN userProfile
  THEN [c \in CategorySet |-> Frac(userProfile.categoryWeights[c], 10)]
  ELSE [c \in CategorySet |-> Num(1)]

\* calculateCategoryScore: the average rating scaled by preference / 5.
CalculateCategoryScore(userPreference, featureValues) ==
  Times(Frac(Sum(featureValues), Len(featureValues)), Over(userPreference, Num(5)))

\* features[category][rating] is a number: validateStationFeatures requires
\* it, and a station with incomplete data lacks it (undefined).
Rated(features, category, rating) == rating \in DOMAIN features[category]

\* The ratings validateStationFeatures requires of every station.
RequiredRatings ==
  [housing |-> {"rentLevel", "familyFriendly", "quietness"},
   transport |-> {"accessibility", "walkability"},
   commercial |-> {"shopping", "restaurants", "convenience"},
   culture |-> {"entertainment", "history", "nightlife"},
   price |-> {"costOfLiving", "diningCost"}]

\* validateStationFeatures(features): every required rating is a number.
ValidateStationFeatures(features) ==
  \A c \in CategorySet : \A r \in RequiredRatings[c] : Rated(features, c, r)

\* A number computed from undefined: NaN, the quotient 0 / 0. Every
\* comparison with it is false.
NaN == <<0, 0>>

\* Mutant of FeatureValues: the connection count is not capped at 5.
FeatureValuesUncapped(category, features) ==
  CASE category = "housing" ->
         <<features.housing.familyFriendly, features.housing.quietness>>
    [] category = "transport" ->
         <<features.transport.accessibility, Len(features.transport.connections)>>
    [] category = "commercial" ->
         <<features.commercial.shopping, features.commercial.restaurants,
           features.commercial.convenience>>
    [] category = "culture" ->
         <<features.culture.entertainment, features.culture.history,
           features.culture.nightlife>>
    [] category = "price" ->
         <<6 - features.housing.rentLevel, 6 - features.price.costOfLiving,
           6 - features.price.diningCost>>

\* FeatureValues with the cost ratings read as they are, not as 6 - rating.
FeatureValuesNotInverted(category, features) ==
  CASE category = "housing" ->
         <<features.housing.familyFriendly, features.housing.quietness>>
    [] category = "transport" ->
         <<features.transport.accessibility,
           Min(5, Len(features.transport.connections))>>
    [] category = "commercial" ->
         <<features.commercial.shopping, features.commercial.restaurants,
           features.commercial.convenience>>
    [] category = "culture" ->
         <<features.culture.entertainment, features.culture.history,
           features.culture.nightlife>>
    [] category = "price" ->
         <<features.housing.rentLevel, features.price.costOfLiving,
           features.price.diningCost>>

\* The feature values calculateStationScore passes for each category.
FeatureValues(category, features) ==
  CASE category = "housing" ->
         <<features.housing.familyFriendly, features.housing.quietness>>
    [] category = "transport" ->
         <<features.transport.accessibility,
           Min(5, Len(features.transport.connections))>>
    [] category = "commercial" ->
         <<features.commercial.shopping, features.commercial.restaurants,
           features.commercial.convenience>>
    [] category = "culture" ->
         <<features.culture.entertainment, features.culture.history,
           features.culture.nightlife>>
    [] category = "price" ->
         <<6 - features.housing.rentLevel, 6 - features.price.costOfLiving,
           6 - features.price.diningCost>>

\* Mutant of TermWeight: the price weight is never boosted.
TermWeightNoBoost(category, preferences, categoryWeights) ==
  IF category = "price"
  THEN Times(preferences["price"],
             MathMax(categoryWeights["price"], categoryWeights["housing"]))
  ELSE Times(preferences[category], categoryWeights[category])

\* The weight of a category's term: preference * categoryWeight, and for
\* price preference * max(price, housing weight) * priceBoostMultiplier.
TermWeight(category, preferences, categoryWeights) ==
  IF category = "price"
  THEN LET combinedPriceWeight ==
             MathMax(categoryWeights["price"], categoryWeights["housing"])
           priceBoostMultiplier ==
             IF ~Less(categoryWeights["price"], Num(3)) THEN Frac(15, 10) ELSE Num(1)
       IN  Times(Times(preferences["price"], combinedPriceWeight),
                 priceBoostMultiplier)
  ELSE Times(preferences[category], categoryWeights[category])

\* totalScore and totalWeight after the five category blocks, from the
\* category at index i on.
RECURSIVE Totals(_, _, _, _)
Totals(i, userProfile, station, acc) ==
  IF i > Len(Categories) THEN acc
  ELSE LET c == Categories[i]
           preferences == userProfile.preferences
           weight == TermWeight(c, preferences, CategoryWeightsOf(userProfile))
           score == CalculateCategoryScore(preferences[c],
                                           FeatureValues(c, station.features))
       IN  Totals(i + 1, userProfile, station,
                  IF Less(Num(0), preferences[c])
                  THEN [totalScore |-> Plus(acc.totalScore, Times(score, weight)),
                        totalWeight |-> Plus(acc.totalWeight, weight)]
                  ELSE acc)

\* baseScore: the weighted average on the scale 0..100, 0 without weight.
BaseScore(userProfile, station) ==
  LET t == Totals(1, userProfile, station,
                  [totalScore |-> Num(0), totalWeight |-> Num(0)])
  IN  IF Less(Num(0), t.totalWeight)
      THEN Times(Over(t.totalScore, t.totalWeight), Num(20))
      ELSE Num(0)

\* priorityMappings[priority](station), 0 for a priority without a mapping.
PriorityMapping(priority, station) ==
  LET f == station.features
  IN  CASE priority = "family-friendly" -> f.housing.familyFriendly * 2
        [] priority = "quiet" -> f.housing.quietness * 2
        [] priority = "affordable" -> (6 - f.price.costOfLiving) * 2
        [] priority = "shopping" -> f.commercial.shopping * 2
        [] priority = "nightlife" -> f.culture.nightlife * 2
        [] priority = "entertainment" -> f.culture.entertainment * 2
        [] priority = "accessible" -> f.transport.accessibility * 2
        [] priority = "walkable" -> f.transport.walkability * 2
        [] priority = "restaurants" -> f.commercial.restaurants * 2
        [] priority = "history" -> f.culture.history * 2
        [] priority = "convenient" -> f.commercial.convenience * 2
        [] OTHER -> 0

\* The rating priorityMappings[priority] reads, <<>> without a mapping.
MappedRating(priority) ==
  CASE priority = "family-friendly" -> <<"housing", "familyFriendly">>
    [] priority = "quiet" -> <<"housing", "quietness">>
    [] priority = "affordable" -> <<"price", "costOfLiving">>
    [] priority = "shopping" -> <<"commercial", "shopping">>
    [] priority = "nightlife" -> <<"culture", "nightlife">>
    [] priority = "entertainment" -> <<"culture", "entertainment">>
    [] priority = "accessible" -> <<"transport", "accessibility">>
    [] priority = "walkable" -> <<"transport", "walkability">>
    [] priority = "restaurants" -> <<"commercial", "restaurants">>
    [] priority = "history" -> <<"culture", "history">>
    [] priority = "convenient" -> <<"commercial", "convenience">>
    [] OTHER -> <<>>

\* priorities.slice(0, 3)
BonusPriorities == 3

\* Math.min(20, bonus)
MaxBonus == 20

\* Mutant of CalculatePriorityBonus: every priority is counted.
CalculatePriorityBonusAll(priorities, station) ==
  Min(MaxBonus, Sum([i \in 1..Len(priorities) |->
                       PriorityMapping(priorities[i], station)]))

\* calculatePriorityBonus: the mappings of the first three priorities, capped.
CalculatePriorityBonus(priorities, station) ==
  LET top == SubSeq(priorities, 1, Min(BonusPriorities, Len(priorities)))
  IN  Min(MaxBonus, Sum([i \in 1..Len(top) |-> PriorityMapping(top[i], station)]))

\* Mutant of Clamp: Math.min and Math.max are exchanged.
ClampExchanged(score) == MathMax(Num(100), MathMin(Num(0), score))

\* Mutant of Clamp: the score is returned as computed.
ClampOmitted(score) == score

\* Math.min(100, Math.max(0, score))
Clamp(score) == MathMin(Num(100), MathMax(Num(0), score))

\* The ratings calculateStationScore reads for a profile: those of the
\* categories with a preference above 0 (the price category reads the rent
\* level of housing) and those mapped by the first three priorities.
RatingsRead(userProfile) ==
  LET wanted(c) == Less(Num(0), userProfile.preferences[c])
      priorities == userProfile.priorities
  IN  (IF wanted("housing")
       THEN {<<"housing", "familyFriendly">>, <<"housing", "quietness">>} ELSE {})
      \cup (IF wanted("transport") THEN {<<"transport", "accessibility">>} ELSE {})
      \cup (IF wanted("commercial")
            THEN {<<"commercial", r>> : r \in RequiredRatings["commercial"]} ELSE {})
      \cup (IF wanted("culture")
            THEN {<<"culture", r>> : r \in RequiredRatings["culture"]} ELSE {})
      \cup (IF wanted("price")
            THEN {<<"housing", "rentLevel">>, <<"price", "costOfLiving">>,
                  <<"price", "diningCost">>} ELSE {})
      \cup ({MappedRating(priorities[i]) :
               i \in 1..Min(BonusPriorities, Len(priorities))} \ {<<>>})

\* calculateStationScore: arithmetic on a rating that is undefined gives NaN,
\* which Math.max and Math.min hand through.
CalculateStationScore(userProfile, station) ==
  IF \E r \in RatingsRead(userProfile) : ~Rated(station.features, r[1], r[2])
  THEN NaN
  ELSE Clamp(Plus(BaseScore(userProfile, station),
                  Num(CalculatePriorityBonus(userProfile.priorities, station))))

\* Mutant of CalculateScoresCall: the Map of the previous calculateScores
\* call is reused as a memo, whatever profile it was computed for.
CalculateScoresCallMemoized(catalog, userProfile) ==
  IF result.op = "calculateScores" THEN result.value
  ELSE [id \in {catalog[i].id : i \in 1..Len(catalog)} |->
          CalculateStationScore(userProfile,
                                catalog[CHOOSE i \in 1..Len(catalog) : catalog[i].id = id])]

\* calculateScores: the Map from station id to score; a later station with
\* the same id overwrites the entry of an earlier one.
CalculateScoresCall(catalog, userProfile) ==
  [id \in {catalog[i].id : i \in 1..Len(catalog)} |->
     LET last == CHOOSE i \in 1..Len(catalog) :
                   /\ catalog[i].id = id
                   /\ \A j \in (i + 1)..Len(catalog) : catalog[j].id # id
     IN  CalculateStationScore(userProfile, catalog[last])]

\* Mutant of InsertByScore: the entry goes ahead of the entries of equal score.
InsertByScoreAhead(sorted, e) ==
  LET k == Cardinality({i \in 1..Len(sorted) : Less(e.score, sorted[i].score)})
  IN  SubSeq(sorted, 1, k) \o <<e>> \o SubSeq(sorted, k + 1, Len(sorted))

\* Insert entry e into a sequence sorted by descending score, behind every
\* entry whose score is not smaller (the sort is stable).
InsertByScore(sorted, e) ==
  LET k == Cardinality({i \in 1..Len(sorted) : ~Less(sorted[i].score, e.score)})
  IN  SubSeq(sorted, 1, k) \o <<e>> \o SubSeq(sorted, k + 1, Len(sorted))

\* Mutant of SortByScore: the entries stay in catalog order.
SortByScoreOmitted(sorted, entries) == sorted \o entries

\* Array.prototype.sort((a, b) => b.score - a.score): stable, descending.
RECURSIVE SortByScore(_, _)
SortByScore(sorted, entries) ==
  IF entries = <<>> THEN sorted
  ELSE SortByScore(InsertByScore(sorted, Head(entries)), Tail(entries))

\* stations.map(station => ({station, score: scores.get(station.id) || 0}))
\* sorted by descending score; a missing entry and NaN become 0.
StationScores(catalog, userProfile) ==
  LET scores == CalculateScoresCall(catalog, userProfile)
  IN  SortByScore(<<>>, [i \in 1..Len(catalog) |->
                           [station |-> catalog[i],
                            score |-> IF /\ catalog[i].id \in DOMAIN scores
                                         /\ scores[catalog[i].id] # NaN
                                      THEN scores[catalog[i].id] ELSE Num(0)]])

\* features[category][rating] >= n and <= n; false for undefined.
AtLeast(features, category, rating, n) ==
  Rated(features, category, rating) /\ features[category][rating] >= n

AtMost(features, category, rating, n) ==
  Rated(features, category, rating) /\ features[category][rating] <= n

\* The strings explainRecommendation pushes when the preference of a category
\* is above 3; a message about a station is named by its subject.
CategoryFindings(category, f) ==
  CASE category = "housing" ->
         [matching |->
            (IF AtLeast(f, "housing", "familyFriendly", 4) THEN <<"family-friendly environment">>
             ELSE <<>>)
            \o (IF AtLeast(f, "housing", "quietness", 4) THEN <<"quiet residential area">> ELSE <<>>)
            \o (IF AtMost(f, "housing", "rentLevel", 2) THEN <<"affordable housing">> ELSE <<>>),
          considerations |->
            IF ~AtMost(f, "housing", "rentLevel", 2) /\ AtLeast(f, "housing", "rentLevel", 4)
            THEN <<"high rent">> ELSE <<>>]
    [] category = "transport" ->
         [matching |->
            (IF AtLeast(f, "transport", "accessibility", 4) THEN <<"excellent accessibility">>
             ELSE <<>>)
            \o (IF AtLeast(f, "transport", "walkability", 4) THEN <<"walkable area">> ELSE <<>>)
            \o (IF Len(f.transport.connections) >= 3 THEN <<"multiple train lines">>
                ELSE <<>>),
          considerations |-> <<>>]
    [] category = "commercial" ->
         [matching |->
            (IF AtLeast(f, "commercial", "shopping", 4) THEN <<"excellent shopping">> ELSE <<>>)
            \o (IF AtLeast(f, "commercial", "restaurants", 4) THEN <<"diverse dining options">>
                ELSE <<>>)
            \o (IF AtLeast(f, "commercial", "convenience", 4) THEN <<"convenient daily shopping">>
                ELSE <<>>),
          considerations |-> <<>>]
    [] category = "culture" ->
         [matching |->
            (IF AtLeast(f, "culture", "entertainment", 4) THEN <<"rich entertainment">> ELSE <<>>)
            \o (IF AtLeast(f, "culture", "history", 4) THEN <<"historical significance">> ELSE <<>>)
            \o (IF AtLeast(f, "culture", "nightlife", 4) THEN <<"vibrant nightlife">> ELSE <<>>),
          considerations |-> <<>>]
    [] category = "price" ->
         [matching |->
            (IF AtMost(f, "price", "costOfLiving", 2) THEN <<"affordable living costs">> ELSE <<>>)
            \o (IF AtMost(f, "price", "diningCost", 2) THEN <<"affordable dining">> ELSE <<>>),
          considerations |-> <<>>]

\* The strength the priority loop of explainRecommendation pushes, if any.
PriorityFinding(priority, f) ==
  IF \/ priority = "family-friendly" /\ AtLeast(f, "housing", "familyFriendly", 4)
     \/ priority = "quiet" /\ AtLeast(f, "housing", "quietness", 4)
     \/ priority = "affordable" /\ AtMost(f, "price", "costOfLiving", 2)
     \/ priority = "shopping" /\ AtLeast(f, "commercial", "shopping", 4)
     \/ priority = "nightlife" /\ AtLeast(f, "culture", "nightlife", 4)
  THEN <<<<"priority", priority>>>> ELSE <<>>

RECURSIVE Flatten(_)
Flatten(lists) == IF lists = <<>> THEN <<>> ELSE Head(lists) \o Flatten(Tail(lists))

\* Mutant of ExplainRecommendationCall: the general consideration is never
\* added.
ExplainRecommendationCallNoGeneral(station, userProfile) ==
  LET f == station.features
      found == [i \in 1..Len(Categories) |->
                  IF Less(Num(3), userProfile.preferences[Categories[i]])
                  THEN CategoryFindings(Categories[i], f)
                  ELSE [matching |-> <<>>, considerations |-> <<>>]]
      matchingFeatures == Flatten([i \in 1..Len(Categories) |-> found[i].matching])
      top == SubSeq(userProfile.priorities, 1,
                    Min(BonusPriorities, Len(userProfile.priorities)))
  IN  [matchingFeatures |-> matchingFeatures,
       strengths |->
         matchingFeatures
           \o Flatten([i \in 1..Len(top) |-> PriorityFinding(top[i], f)]),
       considerations |->
         Flatten([i \in 1..Len(Categories) |-> found[i].considerations])]

\* explainRecommendation(station, userProfile): every matching feature comes
\* with one strength, so the strengths are the matching features followed by
\* the findings of the first three priorities.
ExplainRecommendationCall(station, userProfile) ==
  LET f == station.features
      found == [i \in 1..Len(Categories) |->
                  IF Less(Num(3), userProfile.preferences[Categories[i]])
                  THEN CategoryFindings(Categories[i], f)
                  ELSE [matching |-> <<>>, considerations |-> <<>>]]
      matchingFeatures == Flatten([i \in 1..Len(Categories) |-> found[i].matching])
      top == SubSeq(userProfile.priorities, 1,
                    Min(BonusPriorities, Len(userProfile.priorities)))
  IN  [matchingFeatures |-> matchingFeatures,
       strengths |->
         matchingFeatures
           \o Flatten([i \in 1..Len(top) |-> PriorityFinding(top[i], f)]),
       considerations |->
         Flatten([i \in 1..Len(Categories) |-> found[i].considerations])
           \o (IF matchingFeatures = <<>> THEN <<"balanced">> ELSE <<>>)]

\* Math.min(3, stationScores.length)
MaxRecommendations == 3

\* generateRecommendations(userProfile): the top three of the sorted list.
GenerateRecommendationsCall(catalog, userProfile) ==
  LET stationScores == StationScores(catalog, userProfile)
  IN  [i \in 1..Min(MaxRecommendations, Len(stationScores)) |->
         [station |-> stationScores[i].station,
          score |-> Round2(stationScores[i].score),
          rank |-> i,
          explanation |->
            ExplainRecommendationCall(stationScores[i].station, userProfile)]]

\* Mutant of GenerateFullRankingCall: the scores are not rounded.
GenerateFullRankingCallUnrounded(catalog, userProfile) ==
  LET stationScores == StationScores(catalog, userProfile)
  IN  [i \in 1..Len(stationScores) |->
         [station |-> stationScores[i].station,
          score |-> stationScores[i].score,
          rank |-> i,
          explanation |-> [matchingFeatures |-> <<>>, strengths |-> <<>>,
                           considerations |-> <<>>]]]

\* Mutant of GenerateFullRankingCall: every entry is explained.
GenerateFullRankingCallExplained(catalog, userProfile) ==
  LET stationScores == StationScores(catalog, userProfile)
  IN  [i \in 1..Len(stationScores) |->
         [station |-> stationScores[i].station,
          score |-> Round2(stationScores[i].score),
          rank |-> i,
          explanation |->
            ExplainRecommendationCall(stationScores[i].station, userProfile)]]

\* generateFullRanking(userProfile): the whole sorted list, explanations empty.
GenerateFullRankingCall(catalog, userProfile) ==
  LET stationScores == StationScores(catalog, userProfile)
  IN  [i \in 1..Len(stationScores) |->
         [station |-> stationScores[i].station,
          score |-> Round2(stationScores[i].score),
          rank |-> i,
          explanation |-> [matchingFeatures |-> <<>>, strengths |-> <<>>,
                           considerations |-> <<>>]]]

\* ----------------------------------------------------------------- actions

\* The identifiers a caller may send: those of the catalog and an unknown one.
QuestionIdInputs == {questions[i].id : i \in 1..Len(questions)} \cup {<<"nope">>}

OptionIdInputs ==
  UNION {{questions[i].options[j].id : j \in 1..Len(questions[i].options)} :
           i \in 1..Len(questions)} \cup {<<"nope">>}

\* The observer before it is given a profile to watch.
NotObserved ==
  [userProfile |-> NoProfile, seen |-> FALSE, recommendations |-> <<>>,
   sessionOps |-> FALSE, otherCalls |-> FALSE]

NoResult == [op |-> "none", sessionId |-> "", error |-> "none", value |-> <<>>]

\* The profile object the last caller was handed, NoProfile if none.
ResultProfile ==
  IF result.op \in {"getUserProfile", "GET /sessions/profile"} THEN result.value
  ELSE IF result.op = "POST /answers" /\ result.error = "none"
  THEN result.value.userProfile
  ELSE NoProfile

\* The identity of a newly created object: one that no reachable profile has.
FreshRef ==
  LET live == {userSessions[s].profile.ref : s \in DOMAIN userSessions}
                \cup {ResultProfile.ref}
  IN  CHOOSE n \in 1..(Cardinality(live) + 1) :
        n \notin live /\ \A m \in 1..(n - 1) : m \in live

\* diagnosticService.submitAnswer(sessionId, questionId, selectedOptionId)
SubmitAnswer(sessionId, questionId, selectedOptionId) ==
  LET r == SubmitAnswerCall(userSessions, sessionId, questionId, selectedOptionId)
  IN  /\ userSessions' = r.store
      /\ result' = [op |-> "submitAnswer", sessionId |-> sessionId,
                    args |-> <<questionId, selectedOptionId>>,
                    error |-> r.error, value |-> r.value]
      /\ UNCHANGED <<questions, stations>>

\* diagnosticService.getUserProfile(sessionId)
GetUserProfile(sessionId) ==
  LET r == GetUserProfileCall(userSessions, FreshRef, sessionId)
  IN  /\ userSessions' = r.store
      /\ result' = [op |-> "getUserProfile", sessionId |-> sessionId,
                    error |-> r.error, value |-> r.value]
      /\ UNCHANGED <<questions, stations>>

\* diagnosticService.getAnswers(sessionId)
GetAnswers(sessionId) ==
  /\ result' = [op |-> "getAnswers", sessionId |-> sessionId, error |-> "none",
                value |-> GetAnswersCall(userSessions, sessionId)]
  /\ UNCHANGED <<questions, userSessions, stations>>

\* diagnosticService.clearSession(sessionId)
ClearSession(sessionId) ==
  /\ userSessions' = ClearSessionCall(userSessions, sessionId)
  /\ result' = [op |-> "clearSession", sessionId |-> sessionId, error |-> "none",
                value |-> <<>>]
  /\ UNCHANGED <<questions, stations>>

\* diagnosticService.isDiagnosticComplete(sessionId)
IsDiagnosticComplete(sessionId) ==
  /\ result' = [op |-> "isDiagnosticComplete", sessionId |-> sessionId,
                error |-> "none",
                value |-> IsDiagnosticCompleteCall(userSessions, sessionId)]
  /\ UNCHANGED <<questions, userSessions, stations>>

\* POST /api/answers with body {sessionId, questionId, selectedOptionId}; the
\* handler runs to completion. An absent sessionId is "", an absent
\* questionId or selectedOptionId is <<>>; uuidv4() is an id the store does
\* not hold.
PostAnswers(sessionId, questionId, selectedOptionId) ==
  IF questionId = <<>> \/ selectedOptionId = <<>>
  THEN /\ result' = [op |-> "POST /answers", sessionId |-> sessionId,
                     error |-> "Missing required fields", value |-> <<>>]
       /\ UNCHANGED <<questions, userSessions, stations>>
  ELSE \E currentSessionId \in
            (IF sessionId # "" THEN {sessionId} ELSE SessionIds \ DOMAIN userSessions) :
         LET r == SubmitAnswerCall(userSessions, currentSessionId, questionId,
                                   selectedOptionId)
             isComplete == IsDiagnosticCompleteCall(r.store, currentSessionId)
             p == GetUserProfileCall(r.store, FreshRef, currentSessionId)
         IN  IF r.error # "none"
             THEN /\ userSessions' = r.store
                  /\ result' = [op |-> "POST /answers", sessionId |-> currentSessionId,
                                error |-> r.error, value |-> <<>>]
                  /\ UNCHANGED <<questions, stations>>
             ELSE IF isComplete
             THEN /\ userSessions' = p.store
                  /\ result' = [op |-> "POST /answers", sessionId |-> currentSessionId,
                                error |-> p.error,
                                value |-> [answers |-> r.value, isComplete |-> TRUE,
                                           userProfile |-> p.value]]
                  /\ UNCHANGED <<questions, stations>>
             ELSE /\ userSessions' = r.store
                  /\ result' = [op |-> "POST /answers", sessionId |-> currentSessionId,
                                error |-> "none",
                                value |-> [answers |-> r.value, isComplete |-> FALSE,
                                           userProfile |-> NoProfile]]
                  /\ UNCHANGED <<questions, stations>>

\* GET /api/sessions/:sessionId/answers
GetSessionAnswers(sessionId) ==
  /\ result' = [op |-> "GET /sessions/answers", sessionId |-> sessionId,
                error |-> "none",
                value |-> [answers |-> GetAnswersCall(userSessions, sessionId),
                           isComplete |->
                             IsDiagnosticCompleteCall(userSessions, sessionId)]]
  /\ UNCHANGED <<questions, userSessions, stations>>

\* GET /api/sessions/:sessionId/profile
GetSessionProfile(sessionId) ==
  LET r == GetUserProfileCall(userSessions, FreshRef, sessionId)
  IN  /\ userSessions' = r.store
      /\ result' = [op |-> "GET /sessions/profile", sessionId |-> sessionId,
                    error |-> r.error, value |-> r.value]
      /\ UNCHANGED <<questions, stations>>

\* DELETE /api/sessions/:sessionId
DeleteSession(sessionId) ==
  /\ userSessions' = ClearSessionCall(userSessions, sessionId)
  /\ result' = [op |-> "DELETE /sessions", sessionId |-> sessionId,
                error |-> "none", value |-> <<>>]
  /\ UNCHANGED <<questions, stations>>

\* recommendationService.calculateScores(userProfile)
CalculateScores(userProfile) ==
  /\ result' = [op |-> "calculateScores", sessionId |-> "", args |-> userProfile,
                error |-> "none",
                value |-> CalculateScoresCall(GetAllStations, userProfile)]
  /\ UNCHANGED <<questions, userSessions, stations>>

\* recommendationService.generateRecommendations(userProfile)
GenerateRecommendations(userProfile) ==
  /\ result' = [op |-> "generateRecommendations", sessionId |-> "",
                args |-> userProfile, error |-> "none",
                value |-> GenerateRecommendationsCall(GetAllStations, userProfile)]
  /\ UNCHANGED <<questions, userSessions, stations>>

\* recommendationService.generateFullRanking(userProfile)
GenerateFullRanking(userProfile) ==
  /\ result' = [op |-> "generateFullRanking", sessionId |-> "",
                args |-> userProfile, error |-> "none",
                value |-> GenerateFullRankingCall(GetAllStations, userProfile)]
  /\ UNCHANGED <<questions, userSessions, stations>>

\* The retrieval methods of StationService.
StationGetters == {"getAllStations", "getStationById", "getStationFeatures"}

\* The index of the station with id stationId in the catalog, 0 if none
\* (stationCache.get).
FindStation(stationId) ==
  IF \E i \in 1..Len(stations) : stations[i].id = stationId
  THEN CHOOSE i \in 1..Len(stations) : stations[i].id = stationId
  ELSE 0

\* stationService.getAllStations() called by a client: [...this.stations].
GetAllStationsOp ==
  /\ result' = [op |-> "getAllStations", sessionId |-> "", args |-> "",
                error |-> "none", value |-> GetAllStations, written |-> FALSE]
  /\ UNCHANGED <<questions, userSessions, stations>>

\* stationService.getStationById(stationId): {...station}, or null.
GetStationById(stationId) ==
  /\ result' = [op |-> "getStationById", sessionId |-> "", args |-> stationId,
                error |-> "none",
                value |-> IF FindStation(stationId) = 0 THEN <<>>
                          ELSE stations[FindStation(stationId)],
                written |-> FALSE]
  /\ UNCHANGED <<questions, userSessions, stations>>

\* stationService.getStationFeatures(stationId): {...station.features}, or null.
GetStationFeatures(stationId) ==
  /\ result' = [op |-> "getStationFeatures", sessionId |-> "", args |-> stationId,
                error |-> "none",
                value |-> IF FindStation(stationId) = 0 THEN <<>>
                          ELSE stations[FindStation(stationId)].features,
                written |-> FALSE]
  /\ UNCHANGED <<questions, userSessions, stations>>

\* The number of objects, from the station object down, that a retrieval
\* copies: the spread of getAllStations copies the array only, that of
\* getStationById the station object, that of getStationFeatures the features
\* object. Everything below is the catalog's own object.
CopiedLevels(op) ==
  CASE op = "getAllStations" -> 0
    [] op = "getStationById" -> 1
    [] op = "getStationFeatures" -> 2

\* The assignments a caller makes to what it was handed, as paths from the
\* station object: a slot of the array (<<>>), station.name,
\* features.housing, features.housing.rentLevel.
WritePaths(op) ==
  CASE op = "getAllStations" ->
         {<<>>, <<"name">>, <<"features", "housing">>,
          <<"features", "housing", "rentLevel">>}
    [] op = "getStationById" ->
         {<<"name">>, <<"features", "housing">>,
          <<"features", "housing", "rentLevel">>}
    [] op = "getStationFeatures" ->
         {<<"features", "housing">>, <<"features", "housing", "rentLevel">>}

\* The station after the assignment at path.
WriteTo(station, path) ==
  CASE path = <<"name">> -> [station EXCEPT !.name = "Modified"]
    [] path = <<"features", "housing">> ->
         [station EXCEPT !.features.housing =
            [rentLevel |-> 3, familyFriendly |-> 3, quietness |-> 3]]
    [] path = <<"features", "housing", "rentLevel">> ->
         [station EXCEPT !.features.housing.rentLevel = 3]

\* The caller of the last retrieval assigns at path in what it was handed
\* for station i: the assignment reaches the catalog when the object it
\* writes was not copied by the retrieval.
CallerModifies(i, path) ==
  /\ result.op \in StationGetters
  /\ i \in 1..Len(stations)
  /\ result.op # "getAllStations" => result.args = stations[i].id
  /\ path \in WritePaths(result.op)
  /\ stations' = IF Len(path) > CopiedLevels(result.op)
                 THEN [stations EXCEPT ![i] = WriteTo(stations[i], path)]
                 ELSE stations
  /\ result' = [result EXCEPT !.written = TRUE]
  /\ UNCHANGED <<questions, userSessions>>

\* stationService.validateStationData(); the fields beside features are
\* present in every catalog of the model.
ValidateStationData ==
  /\ result' = [op |-> "validateStationData", sessionId |-> "", error |-> "none",
                value |-> \A i \in 1..Len(stations) :
                            ValidateStationFeatures(stations[i].features)]
  /\ UNCHANGED <<questions, userSessions, stations>>

\* The operations of the recommendation service.
RecommendationOps == {"calculateScores", "generateRecommendations", "generateFullRanking"}

\* ---------------------------------------------- frontend: diagnosticSlice

\* The state of the slice before any action. null is "null"; a profile and
\* a recommendation are modelled by their presence.
initialState ==
  [questions |-> <<>>, currentQuestionIndex |-> 0, answers |-> <<>>,
   userProfile |-> "null", recommendations |-> <<>>, sessionId |-> "null",
   isLoading |-> FALSE, error |-> "null", isComplete |-> FALSE]

\* The thunks of the slice and the most requests of one thunk in flight.
Thunks == {"fetchQuestions", "submitAnswer", "generateRecommendations"}

MaxInFlight == 1

\* The most questions a response of GET /questions holds.
MaxQuestions == 3

\* The store when the application starts: the initial state, no request in
\* flight.
FrontendInit ==
  /\ diagnostic = initialState
  /\ pending = [t \in Thunks |-> 0]

\* A step of the backend leaves the store alone.
FrontendIdle == UNCHANGED <<diagnostic, pending>>

\* A step of the store leaves the backend alone.
BackendIdle == UNCHANGED <<questions, userSessions, stations, result, observed>>

\* What a fulfilled fetchQuestions carries: the thunk throws on an empty
\* array, so the list is never empty.
QuestionPayloads ==
  {SubSeq(<<"q1", "q2", "q3", "q4">>, 1, n) : n \in 1..MaxQuestions}

\* What a fulfilled submitAnswer carries.
SubmitPayloads ==
  [sessionId : {"s1"}, answers : {<<"q1">>, <<"q1", "q2">>},
   userProfile : {"null", "profile"}, isComplete : BOOLEAN]

\* dispatch(thunk()): the pending action of the thunk.
Pending(thunk) ==
  /\ pending[thunk] < MaxInFlight
  /\ pending' = [pending EXCEPT ![thunk] = @ + 1]
  /\ diagnostic' = [diagnostic EXCEPT !.isLoading = TRUE, !.error = "null"]
  /\ BackendIdle

\* The request of a thunk in flight ends.
Settled(thunk) ==
  /\ pending[thunk] > 0
  /\ pending' = [pending EXCEPT ![thunk] = @ - 1]

recordAnswer(answer) ==
  /\ Len(diagnostic.answers) < MaxAnswers
  /\ diagnostic' = [diagnostic EXCEPT !.answers = Append(@, answer)]
  /\ UNCHANGED pending
  /\ BackendIdle

nextQuestion ==
  /\ diagnostic' =
       IF diagnostic.currentQuestionIndex < Len(diagnostic.questions) - 1
       THEN [diagnostic EXCEPT !.currentQuestionIndex = @ + 1]
       ELSE diagnostic
  /\ UNCHANGED pending
  /\ BackendIdle

previousQuestion ==
  /\ diagnostic' =
       IF diagnostic.currentQuestionIndex > 0
       THEN [diagnostic EXCEPT !.currentQuestionIndex = @ - 1]
       ELSE diagnostic
  /\ UNCHANGED pending
  /\ BackendIdle

resetDiagnostic ==
  /\ diagnostic' = [diagnostic EXCEPT !.currentQuestionIndex = 0,
                                      !.answers = <<>>,
                                      !.userProfile = "null",
                                      !.recommendations = <<>>,
                                      !.sessionId = "null",
                                      !.isComplete = FALSE,
                                      !.error = "null"]
  /\ UNCHANGED pending
  /\ BackendIdle

setComplete ==
  /\ diagnostic' = [diagnostic EXCEPT !.isComplete = TRUE]
  /\ UNCHANGED pending
  /\ BackendIdle

clearError ==
  /\ diagnostic' = [diagnostic EXCEPT !.error = "null"]
  /\ UNCHANGED pending
  /\ BackendIdle

retryLastAction ==
  /\ diagnostic' = [diagnostic EXCEPT !.error = "null", !.isLoading = FALSE]
  /\ UNCHANGED pending
  /\ BackendIdle

fetchQuestionsFulfilled(payload) ==
  /\ Settled("fetchQuestions")
  /\ diagnostic' = [diagnostic EXCEPT !.isLoading = FALSE, !.questions = payload]
  /\ BackendIdle

submitAnswerFulfilled(payload) ==
  /\ Settled("submitAnswer")
  /\ diagnostic' =
       [diagnostic EXCEPT
          !.isLoading = FALSE,
          !.sessionId = payload.sessionId,
          !.answers = payload.answers,
          !.userProfile = IF payload.userProfile # "null"
                          THEN payload.userProfile ELSE @,
          !.isComplete = IF payload.isComplete THEN TRUE ELSE @]
  /\ BackendIdle

generateRecommendationsFulfilled ==
  /\ Settled("generateRecommendations")
  /\ diagnostic' = [diagnostic EXCEPT !.isLoading = FALSE,
                                      !.recommendations = <<"recommendation">>,
                                      !.userProfile = "profile",
                                      !.isComplete = TRUE]
  /\ BackendIdle

\* The rejected action of a thunk; the message is modelled by the thunk's name.
Rejected(thunk) ==
  /\ Settled(thunk)
  /\ diagnostic' = [diagnostic EXCEPT !.isLoading = FALSE, !.error = thunk]
  /\ BackendIdle

\* The observer: it watches one profile and keeps the list the first
\* generateRecommendations call with that profile returned; from then on it
\* notes whether an operation on a session and whether another call of the
\* recommendation service has run.
Observe ==
  observed' =
    IF ~observed.seen
    THEN IF result'.op = "generateRecommendations"
            /\ result'.args = observed.userProfile
         THEN [observed EXCEPT !.seen = TRUE, !.recommendations = result'.value]
         ELSE observed
    ELSE IF result'.op \notin RecommendationOps
         THEN [observed EXCEPT !.sessionOps = TRUE]
         ELSE IF result'.op = "generateRecommendations"
                 /\ result'.args = observed.userProfile
         THEN observed
         ELSE [observed EXCEPT !.otherCalls = TRUE]

\* ---------------------------------------------------------- specifications

\* The service after construction, loaded with the two-question catalog.
Init ==
  /\ questions = SmallCatalog
  /\ userSessions = <<>>
  /\ stations = StationPool
  /\ result = NoResult
  /\ observed = NotObserved
  /\ FrontendInit

\* The methods of DiagnosticService, called in any order with any arguments.
Next ==
  /\ \/ \E s \in SessionIds, q \in QuestionIdInputs, o \in OptionIdInputs :
          SubmitAnswer(s, q, o)
     \/ \E s \in SessionIds : GetUserProfile(s)
     \/ \E s \in SessionIds : GetAnswers(s)
     \/ \E s \in SessionIds : ClearSession(s)
     \/ \E s \in SessionIds : IsDiagnosticComplete(s)
  /\ Observe
  /\ FrontendIdle

Spec == Init /\ [][Next]_vars

\* The diagnostic routes, requested in any order with any bodies.
NextRoutes ==
  /\ \/ \E s \in SessionIds \cup {""},
           q \in QuestionIdInputs \cup {<<>>}, o \in OptionIdInputs \cup {<<>>} :
          PostAnswers(s, q, o)
     \/ \E s \in SessionIds : GetSessionAnswers(s)
     \/ \E s \in SessionIds : GetSessionProfile(s)
     \/ \E s \in SessionIds : DeleteSession(s)
  /\ Observe
  /\ FrontendIdle

SpecRoutes == Init /\ [][NextRoutes]_vars

\* Every list of answers a session can hold: one valid option for each of
\* some of the questions, in any order of submission.
RECURSIVE AnswerLists(_, _)
AnswerLists(catalog, n) ==
  IF n = 0 THEN {<<>>}
  ELSE LET shorter == AnswerLists(catalog, n - 1)
       IN  shorter \cup
           {Append(l, Answer(catalog[i].id, catalog[i].options[j].id)) :
              <<l, i, j>> \in
                {<<l, i, j>> \in shorter \X (1..Len(catalog)) \X (1..6) :
                   /\ Len(l) = n - 1
                   /\ j <= Len(catalog[i].options)
                   /\ \A k \in 1..Len(l) : l[k].questionId # catalog[i].id}}

\* The service loaded with the full catalog, one session holding any list of
\* answers and no computed profile.
InitProfile ==
  /\ questions = FullCatalog
  /\ \E answers \in AnswerLists(FullCatalog, Min(MaxAnswers, Len(FullCatalog))) :
       userSessions = ("s1" :> [answers |-> answers, profile |-> NoProfile])
  /\ stations = StationPool
  /\ result = NoResult
  /\ observed = NotObserved
  /\ FrontendInit

NextProfile ==
  /\ \E s \in SessionIds : GetUserProfile(s)
  /\ Observe
  /\ FrontendIdle

SpecProfile == InitProfile /\ [][NextProfile]_vars

\* A profile as a caller builds it: preferences and priorities, with
\* categoryWeights unless the table is <<>>.
Profile(preferences, priorities, categoryWeights) ==
  IF categoryWeights = <<>>
  THEN [preferences |-> preferences, priorities |-> priorities]
  ELSE [preferences |-> preferences, priorities |-> priorities,
        categoryWeights |-> categoryWeights]

\* A table over the five categories, in the order of Categories.
Table(values) ==
  [c \in CategorySet |-> values[CHOOSE i \in 1..Len(Categories) : Categories[i] = c]]

\* Preferences: none, all equal, a single category, and mixed with quotients.
PreferenceTables ==
  { Table(<<Num(0), Num(0), Num(0), Num(0), Num(0)>>),
    Table(<<Num(5), Num(5), Num(5), Num(5), Num(5)>>),
    Table(<<Num(0), Num(0), Num(0), Num(0), Num(5)>>),
    Table(<<Frac(11, 3), Num(4), Num(2), Num(0), Num(5)>>),
    Table(<<Num(2), Num(5), Frac(7, 2), Num(4), Num(0)>>),
    Table(<<Num(0), Num(0), Num(1), Num(5), Num(3)>>) }

\* Category weights in tenths: none given, the default, the presets of
\* housing, price and transport, and one with housing above price.
WeightTables ==
  { <<>>,
    Table(<<10, 10, 10, 10, 10>>),
    Table(<<20, 5, 5, 5, 20>>),
    Table(<<25, 5, 5, 5, 30>>),
    Table(<<5, 20, 5, 5, 5>>),
    Table(<<20, 10, 10, 10, 10>>) }

\* Priorities: none, a fourth entry with a mapping, entries without a
\* mapping, and three entries whose mappings exceed the cap.
PriorityLists ==
  { <<>>,
    <<"quiet">>,
    <<"affordable", "shopping", "residential", "family-friendly">>,
    <<"rent", "multi-line">>,
    <<"family-friendly", "quiet", "accessible", "walkable">> }

Profiles ==
  {Profile(p, l, w) : <<p, l, w>> \in PreferenceTables \X PriorityLists \X WeightTables}

\* The recommendation service over any catalog of at most MaxStations
\* stations, called with any one profile.
InitScore ==
  /\ questions = SmallCatalog
  /\ userSessions = <<>>
  /\ stations \in StationLists(MaxStations)
  /\ result = NoResult
  /\ \E p \in Profiles : observed = [NotObserved EXCEPT !.userProfile = p]
  /\ FrontendInit

NextScore ==
  /\ \/ CalculateScores(observed.userProfile)
     \/ GenerateRecommendations(observed.userProfile)
     \/ GenerateFullRanking(observed.userProfile)
  /\ Observe
  /\ FrontendIdle

SpecScore == InitScore /\ [][NextScore]_vars

\* Profiles that rank the pool differently: every category wanted, price
\* alone wanted under the price preset, and nothing wanted (every score 0).
DeterminismProfiles ==
  { Profile(Table(<<Num(5), Num(5), Num(5), Num(5), Num(5)>>), <<>>,
            Table(<<10, 10, 10, 10, 10>>)),
    Profile(Table(<<Num(0), Num(0), Num(0), Num(0), Num(5)>>), <<"quiet">>,
            Table(<<25, 5, 5, 5, 30>>)),
    Profile(Table(<<Num(0), Num(0), Num(0), Num(0), Num(0)>>), <<>>, <<>>) }

\* The sessions other than that of the watched profile.
OtherSessions == {"s2"}

\* Both services after construction; the observer watches one profile.
InitDeterminism ==
  /\ questions = SmallCatalog
  /\ userSessions = <<>>
  /\ stations \in {StationPool, Reverse(StationPool)}
  /\ result = NoResult
  /\ \E p \in DeterminismProfiles : observed = [NotObserved EXCEPT !.userProfile = p]
  /\ FrontendInit

\* Recommendation calls with any of the profiles, interleaved with the
\* operations of DiagnosticService on another session.
NextDeterminism ==
  /\ \/ \E p \in DeterminismProfiles : CalculateScores(p)
     \/ \E p \in DeterminismProfiles : GenerateRecommendations(p)
     \/ \E p \in DeterminismProfiles : GenerateFullRanking(p)
     \/ \E s \in OtherSessions, q \in QuestionIdInputs, o \in OptionIdInputs :
          SubmitAnswer(s, q, o)
     \/ \E s \in OtherSessions : GetUserProfile(s)
     \/ \E s \in OtherSessions : ClearSession(s)
  /\ Observe
  /\ FrontendIdle

SpecDeterminism == InitDeterminism /\ [][NextDeterminism]_vars

\* A station whose data lacks one rating.
Without(station, category, rating) ==
  [station EXCEPT !.features[category] =
     [r \in DOMAIN station.features[category] \ {rating} |->
        station.features[category][r]]]

\* The ratings a catalog under SpecValidation may lack.
LackingRatings ==
  {<<"housing", "quietness">>, <<"transport", "walkability">>,
   <<"price", "diningCost">>}

\* Every catalog of fewer than MaxStations stations, one of which lacks one
\* rating.
IncompleteCatalogs ==
  {[catalog EXCEPT ![i] = Without(catalog[i], r[1], r[2])] :
     <<catalog, i, r>> \in
       {<<catalog, i, r>> \in StationLists(MaxStations - 1) \X (1..MaxStations)
                                \X LackingRatings : i <= Len(catalog)}}

\* Profiles given without category weights, with no priority or with "quiet".
ValidationProfiles ==
  {Profile(p, l, <<>>) : <<p, l>> \in PreferenceTables \X {<<>>, <<"quiet">>}}

\* The services loaded with a catalog that holds an incomplete station.
InitValidation ==
  /\ questions = SmallCatalog
  /\ userSessions = <<>>
  /\ stations \in IncompleteCatalogs
  /\ result = NoResult
  /\ \E p \in ValidationProfiles : observed = [NotObserved EXCEPT !.userProfile = p]
  /\ FrontendInit

NextValidation ==
  /\ \/ ValidateStationData
     \/ CalculateScores(observed.userProfile)
     \/ GenerateRecommendations(observed.userProfile)
     \/ GenerateFullRanking(observed.userProfile)
  /\ Observe
  /\ FrontendIdle

SpecValidation == InitValidation /\ [][NextValidation]_vars

\* The catalog under SpecIsolation and the ids a caller asks for.
IsolationCatalog == SubSeq(StationPool, 1, 2)

StationIdInputs == {IsolationCatalog[i].id : i \in 1..Len(IsolationCatalog)} \cup {"nope"}

\* The profile calculateScores is called with under SpecIsolation.
IsolationProfile ==
  Profile(Table(<<Num(5), Num(5), Num(5), Num(5), Num(5)>>), <<>>, <<>>)

InitIsolation ==
  /\ questions = SmallCatalog
  /\ userSessions = <<>>
  /\ stations = IsolationCatalog
  /\ result = NoResult
  /\ observed = NotObserved
  /\ FrontendInit

\* Retrievals from StationService, assignments by their callers, and
\* calculateScores.
NextIsolation ==
  /\ \/ GetAllStationsOp
     \/ \E id \in StationIdInputs : GetStationById(id)
     \/ \E id \in StationIdInputs : GetStationFeatures(id)
     \/ \E i \in 1..Len(IsolationCatalog), path \in WritePaths("getAllStations") :
          CallerModifies(i, path)
     \/ CalculateScores(IsolationProfile)
  /\ Observe
  /\ FrontendIdle

SpecIsolation == InitIsolation /\ [][NextIsolation]_vars

\* The ratings of StationFeatures a score may read, the number of
\* connections among them, and those of them that are costs.
RatingNames ==
  { <<"housing", "rentLevel">>, <<"housing", "familyFriendly">>,
    <<"housing", "quietness">>, <<"transport", "accessibility">>,
    <<"transport", "connections">>, <<"transport", "walkability">>,
    <<"commercial", "shopping">>, <<"commercial", "restaurants">>,
    <<"commercial", "convenience">>, <<"culture", "entertainment">>,
    <<"culture", "history">>, <<"culture", "nightlife">>,
    <<"price", "costOfLiving">>, <<"price", "diningCost">> }

CostRatings ==
  { <<"housing", "rentLevel">>, <<"price", "costOfLiving">>,
    <<"price", "diningCost">> }

\* The value of rating r of a station: connections.length for the connections.
RatingOf(station, r) ==
  IF r = <<"transport", "connections">>
  THEN Len(station.features.transport.connections)
  ELSE station.features[r[1]][r[2]]

\* The station with rating r set to v.
WithRating(station, r, v) ==
  IF r = <<"transport", "connections">>
  THEN [station EXCEPT !.features.transport.connections = SubSeq(Lines, 1, v)]
  ELSE [station EXCEPT !.features[r[1]][r[2]] = v]

\* The station under another id.
WithId(station, id) == [station EXCEPT !.id = id, !.name = id]

\* Catalogs of two stations that differ, beside their ids, in one rating
\* only, which the second has one higher.
RaisedCatalogs ==
  { <<WithId(WithRating(StationPool[b], r, v), "lower"),
      WithId(WithRating(StationPool[b], r, v + 1), "raised")>> :
      b \in 1..3, r \in RatingNames, v \in 1..4 }
  \cup
  { <<WithId(WithRating(StationPool[b], <<"transport", "connections">>, 5), "lower"),
      WithId(WithRating(StationPool[b], <<"transport", "connections">>, 6), "raised")>> :
      b \in 1..3 }

InitMonotone ==
  /\ questions = SmallCatalog
  /\ userSessions = <<>>
  /\ stations \in RaisedCatalogs
  /\ result = NoResult
  /\ \E p \in Profiles : observed = [NotObserved EXCEPT !.userProfile = p]
  /\ FrontendInit

\* calculateScores for one profile over a catalog of RaisedCatalogs.
NextMonotone ==
  /\ CalculateScores(observed.userProfile)
  /\ Observe
  /\ FrontendIdle

SpecMonotone == InitMonotone /\ [][NextMonotone]_vars

\* The actions of diagnosticSlice, dispatched in any order; a fulfilled or
\* rejected action follows the pending action of its thunk.
NextSlice ==
  \/ \E thunk \in Thunks : Pending(thunk)
  \/ \E payload \in QuestionPayloads : fetchQuestionsFulfilled(payload)
  \/ \E payload \in SubmitPayloads : submitAnswerFulfilled(payload)
  \/ generateRecommendationsFulfilled
  \/ \E thunk \in Thunks : Rejected(thunk)
  \/ recordAnswer("q1")
  \/ nextQuestion
  \/ previousQuestion
  \/ resetDiagnostic
  \/ setComplete
  \/ clearError
  \/ retryLastAction

SpecSlice == Init /\ [][NextSlice]_vars

\* ------------------------------------------------------------------ claims

\* The last call was getUserProfile(sessionId) and it returned a profile.
ReturnedProfile(sessionId) ==
  /\ result.op = "getUserProfile"
  /\ result.sessionId = sessionId
  /\ result.error = "none"

\* The option the list `answers` holds for the question of `answer` differs
\* from the option of `answer`.
Superseded(answer, answers) ==
  \E i \in 1..Len(answers) :
    /\ answers[i].questionId = answer.questionId
    /\ answers[i].selectedOption # answer.selectedOption

\* C1: a profile returned by getUserProfile reflects, for every question the
\* session has answered, only the option submitted last: its answers snapshot
\* holds no earlier option for that question, and when the session's answers
\* are the single answer (Q, O2) to a substantive question Q that the snapshot
\* holds too, preferences[Q.category] is O2.value and priorities are the tags
\* of O2.
C1_ProfileReflectsOnlyLatestOption ==
  \A s \in DOMAIN userSessions :
    ReturnedProfile(s) =>
      LET current == userSessions[s].answers
          profile == result.value
      IN  /\ \A i \in 1..Len(profile.answers) :
               ~Superseded(profile.answers[i], current)
          /\ ( /\ Len(current) = 1
               /\ Len(profile.answers) = 1
               /\ profile.answers[1].questionId = current[1].questionId
               /\ Scored(current[1]) )
             => /\ profile.preferences[QuestionOf(current[1]).category]
                     = Num(OptionOf(current[1]).value)
                /\ Range(profile.priorities) = Range(OptionOf(current[1]).tags)

\* C2: whenever a session holds a cached profile, the profile's answers
\* snapshot is the session's current answer list, and the userProfile that
\* POST /api/answers returns for a complete session is computed from the
\* answers it returns.
C2_CachedProfileIsCurrent ==
  /\ \A s \in DOMAIN userSessions :
       userSessions[s].profile # NoProfile
         => userSessions[s].profile.answers = userSessions[s].answers
  /\ ( /\ result.op = "POST /answers"
       /\ result.error = "none"
       /\ result.value.isComplete )
     => result.value.userProfile.answers = result.value.answers

\* C3: a session holds at most one answer per questionId, and a successful
\* submitAnswer leaves the earlier answers to all other questions as they
\* were, in their order, followed by the new answer.
C3_OneAnswerPerQuestion ==
  /\ [](\A s \in DOMAIN userSessions :
          \A i, j \in 1..Len(userSessions[s].answers) :
            userSessions[s].answers[i].questionId = userSessions[s].answers[j].questionId
              => i = j)
  /\ [][ (result'.op = "submitAnswer" /\ result'.error = "none")
         => LET s == result'.sessionId
                old == GetAnswersCall(userSessions, s)
                new == userSessions'[s].answers
                submitted == Answer(result'.args[1], result'.args[2])
                others == {i \in 1..Len(old) : old[i].questionId # submitted.questionId}
            IN  /\ Len(new) = Cardinality(others) + 1
                /\ new[Len(new)] = submitted
                /\ result'.value = new
                /\ \A i \in others :
                     new[Cardinality({j \in others : j <= i})] = old[i] ]_vars

\* C3 witness: a successful submitAnswer has replaced an answer of a session
\* holding two answers (the profile cached before still shows the replaced one).
C3_Witness ==
  \E s \in DOMAIN userSessions :
    /\ result.op = "submitAnswer" /\ result.error = "none" /\ result.sessionId = s
    /\ Len(userSessions[s].answers) = 2
    /\ userSessions[s].profile # NoProfile
    /\ Superseded(Answer(result.args[1], result.args[2]), userSessions[s].profile.answers)

\* C4: a getUserProfile call that directly follows a successful getUserProfile
\* call on the same session returns the same profile object and changes no
\* session state.
C4_GetUserProfileIdempotent ==
  [][ ( /\ result.op = "getUserProfile" /\ result.error = "none"
        /\ result'.op = "getUserProfile"
        /\ result'.sessionId = result.sessionId )
      => /\ result'.error = "none"
         /\ result'.value = result.value
         /\ userSessions' = userSessions ]_vars

\* C4 witness: getUserProfile has returned the profile a session holds, while
\* another profile object exists (so a new object would differ from it).
C4_Witness ==
  \E s \in DOMAIN userSessions :
    /\ ReturnedProfile(s)
    /\ result.value = userSessions[s].profile
    /\ \E t \in DOMAIN userSessions :
         t # s /\ userSessions[t].profile # NoProfile

\* C5: submitAnswer with a questionId absent from the catalog throws the
\* unknown-question error whatever the option id, with a known question and an
\* option id absent from its options it throws the unknown-option error, and a
\* failing call leaves the session's answer list as it was.
C5_InvalidSubmitRejected ==
  [][ result'.op = "submitAnswer"
      => LET s == result'.sessionId
             known == {i \in 1..Len(questions) : questions[i].id = result'.args[1]}
         IN  /\ known = {} => result'.error = "UnknownQuestion"
             /\ ( /\ known # {}
                  /\ \A i \in known : \A j \in 1..Len(questions[i].options) :
                       questions[i].options[j].id # result'.args[2] )
                => result'.error = "UnknownOption"
             /\ result'.error # "none"
                => GetAnswersCall(userSessions', s) = GetAnswersCall(userSessions, s) ]_vars

\* C5 witness: submitAnswer has thrown the unknown-option error for a question
\* the session holds an answer to.
C5_Witness ==
  \E s \in DOMAIN userSessions :
    /\ result.op = "submitAnswer" /\ result.sessionId = s
    /\ result.error = "UnknownOption"
    /\ \E i \in 1..Len(userSessions[s].answers) :
         userSessions[s].answers[i].questionId = result.args[1]

\* C6: getUserProfile for a session id the store has no record of throws the
\* session-not-found error, returns no profile and creates no record.
C6_UnknownSessionProfileFails ==
  [][ (result'.op = "getUserProfile" /\ result'.sessionId \notin DOMAIN userSessions)
      => /\ result'.error = "SessionNotFound"
         /\ result'.value = NoProfile
         /\ userSessions' = userSessions ]_vars

\* C6 witness: getUserProfile has thrown session-not-found for a session that
\* was cleared: the other session still holds the profile computed after the
\* cleared session's one.
C6_Witness ==
  /\ result.op = "getUserProfile" /\ result.error = "SessionNotFound"
  /\ result.sessionId \notin DOMAIN userSessions
  /\ \E t \in DOMAIN userSessions : userSessions[t].profile.ref = 2

\* C7, as claimed: getAnswers for a session id the store has no record of
\* throws the session-not-found error.
C7_UnknownSessionAnswersFail ==
  [][ (result'.op = "getAnswers" /\ result'.sessionId \notin DOMAIN userSessions)
      => result'.error = "SessionNotFound" ]_vars

\* C7, amended: getAnswers for a session id the store has no record of
\* returns the empty answer list, throws nothing and creates no record.
C7_UnknownSessionAnswersEmpty ==
  [][ (result'.op = "getAnswers" /\ result'.sessionId \notin DOMAIN userSessions)
      => /\ result'.error = "none"
         /\ result'.value = <<>>
         /\ userSessions' = userSessions ]_vars

\* C7 witness: getAnswers has returned the empty list for a session the store
\* has no record of, while the store holds another session with answers.
C7_Witness ==
  /\ result.op = "getAnswers" /\ result.error = "none"
  /\ result.sessionId \notin DOMAIN userSessions
  /\ result.value = <<>>
  /\ \E t \in DOMAIN userSessions : userSessions[t].answers # <<>>

\* Sum of f[i] over the i of the finite set S.
RECURSIVE SumOver(_, _)
SumOver(f, S) ==
  IF S = {} THEN 0
  ELSE LET i == CHOOSE i \in S : TRUE IN f[i] + SumOver(f, S \ {i})

\* The question and the option of the catalog an answer names (ids are
\* unique in the catalogs).
CatalogQuestion(answer) ==
  CHOOSE q \in Range(questions) : q.id = answer.questionId

CatalogOption(answer) ==
  CHOOSE o \in Range(CatalogQuestion(answer).options) : o.id = answer.selectedOption

\* The positions of `answers` that answer a question of the category.
OfCategory(answers, category) ==
  {i \in 1..Len(answers) : CatalogQuestion(answers[i]).category = category}

Preset(high) ==
  [c \in CategorySet |-> IF c \in DOMAIN high THEN high[c] ELSE 5]

\* C9: categoryWeights of a computed profile follow the preset table: all 1.0
\* without a priority answer; housing = 2.0, price = 2.0 for the housing
\* option; 2.0 for the category of the transport, commercial or culture
\* option; price = 3.0, housing = 2.5 for the price option; 0.5 elsewhere in
\* these cases; all 1.0 for the 'none' option. Every weight is one of 0.5,
\* 1.0, 2.0, 2.5, 3.0.
C9_CategoryWeightPresets ==
  \A s \in DOMAIN userSessions :
    ReturnedProfile(s) =>
      LET answers == result.value.answers
          weights == result.value.categoryWeights
          priority == {i \in 1..Len(answers) : answers[i].questionId = <<"priority", "01">>}
      IN  /\ \A c \in CategorySet : weights[c] \in {5, 10, 20, 25, 30}
          /\ priority = {} => weights = [c \in CategorySet |-> 10]
          /\ \A i \in priority :
               LET token == answers[i].selectedOption[Len(answers[i].selectedOption)]
               IN  /\ token = "housing" =>
                        weights = Preset([housing |-> 20, price |-> 20])
                   /\ token = "transport" => weights = Preset([transport |-> 20])
                   /\ token = "commercial" => weights = Preset([commercial |-> 20])
                   /\ token = "culture" => weights = Preset([culture |-> 20])
                   /\ token = "price" =>
                        weights = Preset([price |-> 30, housing |-> 25])
                   /\ token = "none" => weights = [c \in CategorySet |-> 10]

\* C9 witness: a profile was computed from answers that include the price
\* option of the priority question and answers to other questions.
C9_Witness ==
  /\ ReturnedProfile("s1")
  /\ Len(result.value.answers) > 1
  /\ \E i \in 1..Len(result.value.answers) :
       result.value.answers[i] = Answer(<<"priority", "01">>, <<"priority", "01", "price">>)
  /\ result.value.categoryWeights["price"] = 30

\* The positions of `answers` that answer a substantive question.
Substantive(answers) ==
  {i \in 1..Len(answers) : CatalogQuestion(answers[i]).category # "priority"}

\* The tags carried by the selected options of the substantive answers.
CarriedTags(answers) ==
  UNION {Range(CatalogOption(answers[i]).tags) : i \in Substantive(answers)}

\* The tally of a tag: the summed weights of the substantive answered
\* questions whose selected option carries it.
Tally(tag, answers) ==
  SumOver([i \in 1..Len(answers) |-> CatalogQuestion(answers[i]).weight],
          {i \in Substantive(answers) : tag \in Range(CatalogOption(answers[i]).tags)})

\* Where a carried tag is first encountered: <<answer position, tag position>>.
FirstSeen(tag, answers) ==
  LET i == CHOOSE i \in Substantive(answers) :
             /\ tag \in Range(CatalogOption(answers[i]).tags)
             /\ \A j \in Substantive(answers) :
                  tag \in Range(CatalogOption(answers[j]).tags) => i <= j
      tags == CatalogOption(answers[i]).tags
  IN  <<i, CHOOSE k \in 1..Len(tags) :
             tags[k] = tag /\ \A m \in 1..(k - 1) : tags[m] # tag>>

Before(a, b) == a[1] < b[1] \/ (a[1] = b[1] /\ a[2] < b[2])

\* C10: priorities of a computed profile holds at most 5 tags, all carried by
\* substantive answers and without duplicates (all of them when there are at
\* most 5), ordered by descending tally, tags of equal tally in
\* first-encountered order, and no omitted tag has a higher tally than an
\* included one.
C10_PrioritiesTopFiveTags ==
  \A s \in DOMAIN userSessions :
    ReturnedProfile(s) =>
      LET answers == result.value.answers
          priorities == result.value.priorities
          carried == CarriedTags(answers)
      IN  /\ Len(priorities) = Min(5, Cardinality(carried))
          /\ Range(priorities) \subseteq carried
          /\ \A k, l \in 1..Len(priorities) :
               k < l =>
                 /\ priorities[k] # priorities[l]
                 /\ Tally(priorities[k], answers) >= Tally(priorities[l], answers)
                 /\ Tally(priorities[k], answers) = Tally(priorities[l], answers)
                      => Before(FirstSeen(priorities[k], answers),
                                FirstSeen(priorities[l], answers))
          /\ \A tag \in carried \ Range(priorities) :
               \A k \in 1..Len(priorities) :
                 Tally(tag, answers) <= Tally(priorities[k], answers)

\* C10 witness: a profile was computed from answers carrying more than five
\* tags, of which two included ones have equal tally and one that is not the
\* first encountered has the highest tally.
C10_Witness ==
  /\ ReturnedProfile("s1")
  /\ Cardinality(CarriedTags(result.value.answers)) > 5
  /\ Len(result.value.priorities) = 5
  /\ Tally(result.value.priorities[2], result.value.answers)
       = Tally(result.value.priorities[3], result.value.answers)
  /\ Before(<<1, 1>>, FirstSeen(result.value.priorities[1], result.value.answers))
  /\ Tally(result.value.priorities[1], result.value.answers)
       > Tally(result.value.priorities[2], result.value.answers)

\* The last call was `op` of the recommendation service.
Returned(op) == result.op = op /\ result.error = "none"

\* The ids of the stations of the catalog.
StationIds == {stations[i].id : i \in 1..Len(stations)}

\* The number v lies in [lo, hi].
Within(v, lo, hi) == ~Less(v, Num(lo)) /\ ~Less(Num(hi), v)

\* C11: calculateScores returns exactly one score for every station of the
\* catalog, keyed by the station's id, and every score lies in [0, 100].
C11_OneScorePerStationInRange ==
  Returned("calculateScores") =>
    /\ DOMAIN result.value = StationIds
    /\ Cardinality(DOMAIN result.value) = Len(stations)
    /\ \A id \in StationIds : Within(result.value[id], 0, 100)

\* calculateScores answered for a catalog of three or more stations, one of
\* them held at 100 by the clamp and another scored strictly inside the range.
C11_Witness ==
  /\ Returned("calculateScores")
  /\ Len(stations) >= 3
  /\ \E id \in StationIds : result.value[id] = Num(100)
  /\ \E id \in StationIds :
       Less(Num(0), result.value[id]) /\ Less(result.value[id], Num(100))

\* The index of a station in the catalog.
CatalogIndex(station) == CHOOSE i \in 1..Len(stations) : stations[i] = station

\* The score the ranking compares for an entry of a returned list.
ComparedScore(entry) == CalculateStationScore(result.args, entry.station)

\* The entries of a returned list carry ranks 1, 2, ... in list order and
\* rounded scores that do not increase.
RankedInOrder(list) ==
  /\ \A i \in 1..Len(list) : list[i].rank = i
  /\ \A i \in 1..(Len(list) - 1) : ~Less(list[i].score, list[i + 1].score)

\* C12: generateRecommendations returns min(3, N) recommendations for a
\* catalog of N stations, ranked 1, 2, 3 in list order with rounded scores that
\* do not increase, and no station left out scores strictly higher than a
\* station returned.
C12_TopThreeRanked ==
  Returned("generateRecommendations") =>
    LET list == result.value
        inside == {list[i].station : i \in 1..Len(list)}
    IN  /\ Len(list) = Min(3, Len(stations))
        /\ Cardinality(inside) = Len(list)
        /\ inside \subseteq Range(stations)
        /\ RankedInOrder(list)
        /\ \A i \in 1..Len(list) : list[i].score = Round2(ComparedScore(list[i]))
        /\ \A i \in 1..Len(list) : \A s \in Range(stations) \ inside :
             ~Less(ComparedScore(list[i]),
                   CalculateStationScore(result.args, s))

\* generateRecommendations answered for a catalog of more than three
\* stations given out of score order, and the scores returned differ.
C12_Witness ==
  /\ Returned("generateRecommendations")
  /\ Len(stations) > 3
  /\ Len(result.value) = 3
  /\ Less(result.value[3].score, result.value[1].score)
  /\ CatalogIndex(result.value[1].station) > 1

\* Entries a and b name the same station with the same rounded score and rank.
SameRanking(a, b) ==
  a.station = b.station /\ a.score = b.score /\ a.rank = b.rank

\* C13: the first min(3, N) entries of generateFullRanking agree with
\* generateRecommendations for the same profile on station, rounded score and
\* rank, in the same order.
C13_RankingPrefixAgrees ==
  /\ Returned("generateFullRanking") =>
       LET top == GenerateRecommendationsCall(stations, result.args)
       IN  /\ Len(top) = Min(3, Len(stations))
           /\ \A i \in 1..Len(top) : SameRanking(result.value[i], top[i])
  /\ Returned("generateRecommendations") =>
       LET full == GenerateFullRankingCall(stations, result.args)
       IN  \A i \in 1..Len(result.value) : SameRanking(result.value[i], full[i])

\* generateFullRanking answered for more than three stations with a score
\* that has digits beyond the hundredths, so the agreement is on rounded scores.
C13_Witness ==
  /\ Returned("generateFullRanking")
  /\ Len(stations) > 3
  /\ \E i \in 1..3 : ComparedScore(result.value[i]) # result.value[i].score

\* C14: generateFullRanking returns every station of the catalog exactly
\* once, ranked 1..N in list order with scores that do not increase, and every
\* explanation is empty.
C14_FullRankingComplete ==
  Returned("generateFullRanking") =>
    LET list == result.value
    IN  /\ Len(list) = Len(stations)
        /\ {list[i].station : i \in 1..Len(list)} = Range(stations)
        /\ RankedInOrder(list)
        /\ \A i \in 1..Len(list) :
             /\ list[i].explanation.matchingFeatures = <<>>
             /\ list[i].explanation.strengths = <<>>
             /\ list[i].explanation.considerations = <<>>

\* generateFullRanking answered for four stations with differing scores, one
\* of which generateRecommendations would explain with matching features.
C14_Witness ==
  /\ Returned("generateFullRanking")
  /\ Len(stations) > 3
  /\ Less(result.value[Len(stations)].score, result.value[1].score)
  /\ \E i \in 1..Len(stations) :
       ExplainRecommendationCall(result.value[i].station,
                                 result.args).matchingFeatures # <<>>

\* C15: in the lists of generateRecommendations and generateFullRanking, of
\* two stations with equal score the one earlier in the catalog is ranked
\* ahead of the other.
C15_TiesKeepCatalogOrder ==
  (Returned("generateRecommendations") \/ Returned("generateFullRanking")) =>
    LET list == result.value
    IN  \A i \in 1..Len(list) : \A s \in Range(stations) :
          /\ CalculateStationScore(result.args, s) = ComparedScore(list[i])
          /\ CatalogIndex(s) < CatalogIndex(list[i].station)
          => \E j \in 1..(i - 1) : list[j].station = s

\* generateRecommendations returned two stations with equal positive score
\* next to each other, and the catalog holds a station of another score
\* between or around them.
C15_Witness ==
  /\ Returned("generateRecommendations")
  /\ \E i \in 1..(Len(result.value) - 1) :
       /\ ComparedScore(result.value[i]) = ComparedScore(result.value[i + 1])
       /\ Less(Num(0), ComparedScore(result.value[i]))
       /\ result.value[i].station.id = "d"
       /\ result.value[i + 1].station.id = "c"

Wanted(userProfile) ==
  {c \in CategorySet : Less(Num(0), userProfile.preferences[c])}

\* The connection count of a station, capped at 5.
CappedConnections(station) ==
  IF Len(station.features.transport.connections) > 5 THEN 5
  ELSE Len(station.features.transport.connections)

\* The mean of the ratings a category is scored on; for price, of the
\* inverted ratings 6 - rentLevel, 6 - costOfLiving and 6 - diningCost.
RatingMean(c, station) ==
  LET f == station.features
  IN  IF c = "housing" THEN Frac(f.housing.familyFriendly + f.housing.quietness, 2)
      ELSE IF c = "transport"
      THEN Frac(f.transport.accessibility + CappedConnections(station), 2)
      ELSE IF c = "commercial"
      THEN Frac(f.commercial.shopping + f.commercial.restaurants
                  + f.commercial.convenience, 3)
      ELSE IF c = "culture"
      THEN Frac(f.culture.entertainment + f.culture.history + f.culture.nightlife, 3)
      ELSE Frac(18 - f.housing.rentLevel - f.price.costOfLiving
                  - f.price.diningCost, 3)

\* The sub-score of a category: the mean rating times preference / 5.
ExpectedSubScore(c, userProfile, station) ==
  Over(Times(RatingMean(c, station), userProfile.preferences[c]), Num(5))

\* The weight of the price category: the price preference times the larger
\* of the price and housing weights, times 3/2 exactly when the price weight
\* is 3.0 or more.
ExpectedPriceWeight(userProfile) ==
  LET cw == CategoryWeightsOf(userProfile)
      larger == IF Less(cw["price"], cw["housing"]) THEN cw["housing"] ELSE cw["price"]
      boosted == IF Less(cw["price"], Num(3)) THEN larger ELSE Times(larger, Frac(3, 2))
  IN  Times(userProfile.preferences["price"], boosted)

\* The weight of a category: preference times category weight (for price,
\* as above).
ExpectedWeight(c, userProfile) ==
  IF c = "price" THEN ExpectedPriceWeight(userProfile)
  ELSE Times(userProfile.preferences[c], CategoryWeightsOf(userProfile)[c])

\* The sum of t[c] over the wanted categories.
RECURSIVE WantedTotal(_, _)
WantedTotal(t, wanted) ==
  IF wanted = {} THEN Num(0)
  ELSE LET c == CHOOSE c \in wanted : TRUE
       IN  Plus(t[c], WantedTotal(t, wanted \ {c}))

\* The weighted average of the wanted categories' sub-scores, times 20; 0
\* when the weights sum to 0.
ExpectedBaseScore(userProfile, station) ==
  LET wanted == Wanted(userProfile)
      weights == WantedTotal([c \in CategorySet |-> ExpectedWeight(c, userProfile)],
                             wanted)
      scores == WantedTotal([c \in CategorySet |->
                               Times(ExpectedSubScore(c, userProfile, station),
                                     ExpectedWeight(c, userProfile))], wanted)
  IN  IF weights = Num(0) THEN Num(0)
      ELSE Times(Num(20), Over(scores, weights))

C18_PriceSubScoreAndWeight ==
  Returned("calculateScores") /\ "price" \in Wanted(result.args) =>
    \A s \in Range(stations) :
      /\ CalculateCategoryScore(result.args.preferences["price"],
                                FeatureValues("price", s.features))
           = ExpectedSubScore("price", result.args, s)
      /\ TermWeight("price", result.args.preferences,
                    CategoryWeightsOf(result.args))
           = ExpectedPriceWeight(result.args)
      /\ Wanted(result.args) = {"price"} /\ result.args.priorities = <<>>
         => result.value[s.id]
              = Times(Num(20), ExpectedSubScore("price", result.args, s))

\* calculateScores answered for a profile wanting price and other categories
\* under the price preset (price weight 3.0, boosted), on a station whose rent
\* level differs from its cost of living.
C18_Witness ==
  /\ Returned("calculateScores")
  /\ Cardinality(Wanted(result.args)) > 1
  /\ "price" \in Wanted(result.args)
  /\ CategoryWeightsOf(result.args)["price"] = Num(3)
  /\ ExpectedPriceWeight(result.args)
       = Times(result.args.preferences["price"], Frac(9, 2))
  /\ \E s \in Range(stations) :
       s.features.housing.rentLevel # s.features.price.costOfLiving

\* The tag-to-feature table of the priority bonus for a station.
BonusTable(station) ==
  LET f == station.features
  IN  [tag \in {"family-friendly", "quiet", "affordable", "shopping", "nightlife",
                "entertainment", "accessible", "walkable", "restaurants",
                "history", "convenient"} |->
         2 * (IF tag = "family-friendly" THEN f.housing.familyFriendly
              ELSE IF tag = "quiet" THEN f.housing.quietness
              ELSE IF tag = "affordable" THEN 6 - f.price.costOfLiving
              ELSE IF tag = "shopping" THEN f.commercial.shopping
              ELSE IF tag = "nightlife" THEN f.culture.nightlife
              ELSE IF tag = "entertainment" THEN f.culture.entertainment
              ELSE IF tag = "accessible" THEN f.transport.accessibility
              ELSE IF tag = "walkable" THEN f.transport.walkability
              ELSE IF tag = "restaurants" THEN f.commercial.restaurants
              ELSE IF tag = "history" THEN f.culture.history
              ELSE f.commercial.convenience)]

\* The bonus of a station: the table values of the first three priorities,
\* nothing for a tag outside the table, at most 20 in all.
ExpectedBonus(priorities, station) ==
  LET first == {i \in 1..Len(priorities) : i <= 3}
      total == SumOver([i \in first |->
                          IF priorities[i] \in DOMAIN BonusTable(station)
                          THEN BonusTable(station)[priorities[i]] ELSE 0], first)
  IN  IF total > 20 THEN 20 ELSE total

\* C19: the priority bonus counts the first three priorities only, adds the
\* table value of each entry found in the table and nothing for any other
\* tag, and is at most 20; with no priorities the bonus is 0 and the score is
\* the base score clamped to [0, 100].
C19_PriorityBonusTopThreeCapped ==
  Returned("calculateScores") =>
    \A s \in Range(stations) :
      /\ result.value[s.id] =
           Clamp(Plus(BaseScore(result.args, s),
                      Num(ExpectedBonus(result.args.priorities, s))))
      /\ result.args.priorities = <<>> =>
           /\ ExpectedBonus(result.args.priorities, s) = 0
           /\ result.value[s.id] = Clamp(BaseScore(result.args, s))
           /\ Within(result.value[s.id], 0, 100)

\* calculateScores answered for four priorities, the third outside the table
\* and the fourth inside it, on a station that gains a bonus below the cap
\* and whose fourth priority would have added more.
C19_Witness ==
  /\ Returned("calculateScores")
  /\ Len(result.args.priorities) = 4
  /\ result.args.priorities[3] \notin DOMAIN BonusTable(stations[1])
  /\ result.args.priorities[4] \in DOMAIN BonusTable(stations[1])
  /\ \E s \in Range(stations) :
       /\ ExpectedBonus(result.args.priorities, s) \in 1..19
       /\ BonusTable(s)[result.args.priorities[4]] > 0
       /\ result.value[s.id] =
            Plus(BaseScore(result.args, s),
                 Num(ExpectedBonus(result.args.priorities, s)))
       /\ Less(result.value[s.id], Num(100))

\* Station A of the scenario: every rating 5, five or more connections, rent
\* level 1. Station B: every rating 1, one connection, rent level 5.
ScenarioStation(station, rating, connections, rentLevel) ==
  LET f == station.features
  IN  /\ f.housing.rentLevel = rentLevel
      /\ Len(f.transport.connections) \in connections
      /\ \A r \in {f.housing.familyFriendly, f.housing.quietness,
                   f.transport.accessibility, f.transport.walkability,
                   f.commercial.shopping, f.commercial.restaurants,
                   f.commercial.convenience, f.culture.entertainment,
                   f.culture.history, f.culture.nightlife,
                   f.price.costOfLiving, f.price.diningCost} : r = rating

\* The profile of the scenario: every preference 5, every category weight
\* 1.0, no priorities.
ScenarioProfile(userProfile) ==
  /\ \A c \in CategorySet :
       /\ userProfile.preferences[c] = Num(5)
       /\ CategoryWeightsOf(userProfile)[c] = Num(1)
  /\ userProfile.priorities = <<>>

\* C20: on a catalog of the two stations A and B, with the profile of the
\* scenario, calculateScores gives A a strictly higher score than B, and both
\* scores lie in [0, 100].
C20_ScenarioAOutscoresB ==
  Returned("calculateScores") /\ ScenarioProfile(result.args) /\ Len(stations) = 2 =>
    \A a, b \in Range(stations) :
      /\ ScenarioStation(a, 5, 5..Len(Lines), 1)
      /\ ScenarioStation(b, 1, {1}, 5)
      => /\ Less(result.value[b.id], result.value[a.id])
         /\ Within(result.value[a.id], 0, 100)
         /\ Within(result.value[b.id], 0, 100)

\* calculateScores answered for the scenario with B ahead of A in the
\* catalog: A scores 268/3 (89.33) and B scores 92/3 (30.67).
C20_Witness ==
  /\ Returned("calculateScores")
  /\ ScenarioProfile(result.args)
  /\ Len(stations) = 2
  /\ ScenarioStation(stations[1], 1, {1}, 5)
  /\ ScenarioStation(stations[2], 5, 5..Len(Lines), 1)
  /\ result.value[stations[2].id] = Frac(268, 3)
  /\ result.value[stations[1].id] = Frac(92, 3)

\* The stations of the catalog whose feature data is complete.
CompleteStations ==
  {s \in Range(stations) : ValidateStationFeatures(s.features)}

\* C21: a station whose feature data is incomplete is excluded from scoring:
\* calculateScores holds no entry for it, generateRecommendations and
\* generateFullRanking list only complete stations, and the complete stations
\* are all scored and ranked.
C21_IncompleteStationsExcluded ==
  /\ Returned("calculateScores") =>
       DOMAIN result.value = {s.id : s \in CompleteStations}
  /\ Returned("generateFullRanking") =>
       {result.value[i].station : i \in 1..Len(result.value)} = CompleteStations
  /\ Returned("generateRecommendations") =>
       /\ \A i \in 1..Len(result.value) : result.value[i].station \in CompleteStations
       /\ Len(result.value) = Min(3, Cardinality(CompleteStations))

\* The number of "balanced area" considerations of an explanation.
BalancedCount(explanation) ==
  Cardinality({i \in 1..Len(explanation.considerations) :
                 explanation.considerations[i] = "balanced"})

\* C22: an explanation holds exactly one general "balanced area"
\* consideration when it has no matching feature and none otherwise, so its
\* matching features, strengths and considerations together hold at least one
\* entry.
C22_BalancedConsiderationIffNoMatch ==
  Returned("generateRecommendations") =>
    \A i \in 1..Len(result.value) :
      LET e == result.value[i].explanation
      IN  /\ BalancedCount(e) = (IF e.matchingFeatures = <<>> THEN 1 ELSE 0)
          /\ Len(e.matchingFeatures) + Len(e.strengths) + Len(e.considerations) >= 1

\* generateRecommendations explained one station with matching features and
\* another with none, whose only entry is the general consideration.
C22_Witness ==
  /\ Returned("generateRecommendations")
  /\ \E i, j \in 1..Len(result.value) :
       /\ result.value[i].explanation.matchingFeatures # <<>>
       /\ result.value[j].explanation =
            [matchingFeatures |-> <<>>, strengths |-> <<>>,
             considerations |-> <<"balanced">>]

\* The step is a call of `op` on session s.
Called(op, s) == result'.op = op /\ result'.sessionId = s

\* C23: submitAnswer, getUserProfile and clearSession on one session, failing
\* calls included, leave the record (answer list and cached profile) of every
\* other session as it was, present or absent.
C23_SessionsIsolated ==
  [][\A a, b \in SessionIds :
       /\ a # b
       /\ result'.op \in {"submitAnswer", "getUserProfile", "clearSession"}
       /\ result'.sessionId = a
       => /\ (b \in DOMAIN userSessions') = (b \in DOMAIN userSessions)
          /\ b \in DOMAIN userSessions => userSessions'[b] = userSessions[b]]_vars

\* A submitAnswer on s1 failed while s2 holds answers and a cached profile.
C23_Witness ==
  /\ result.op = "submitAnswer" /\ result.sessionId = "s1" /\ result.error # "none"
  /\ "s2" \in DOMAIN userSessions
  /\ userSessions["s2"].answers # <<>>
  /\ userSessions["s2"].profile # NoProfile

\* C24: clearSession removes the record of the session; while the store has
\* no record of it getAnswers returns no answers, isDiagnosticComplete is
\* false and getUserProfile fails with session-not-found; a submitAnswer that
\* then succeeds starts a record holding the new answer alone and no profile,
\* and the profile computed for that record is computed from that answer.
C24_ClearSessionDestroysState ==
  [][\A s \in SessionIds :
       /\ Called("clearSession", s) => s \notin DOMAIN userSessions'
       /\ s \notin DOMAIN userSessions =>
            /\ Called("getAnswers", s) => result'.value = <<>>
            /\ Called("isDiagnosticComplete", s) => result'.value = FALSE
            /\ Called("getUserProfile", s) =>
                 /\ result'.error = "SessionNotFound"
                 /\ userSessions' = userSessions
            /\ Called("submitAnswer", s) /\ result'.error = "none" =>
                 /\ userSessions'[s].answers =
                      <<Answer(result'.args[1], result'.args[2])>>
                 /\ userSessions'[s].profile = NoProfile
       /\ /\ s \in DOMAIN userSessions
          /\ Len(userSessions[s].answers) = 1
          /\ userSessions[s].profile = NoProfile
          /\ Called("getUserProfile", s)
          => /\ result'.error = "none"
             /\ result'.value.answers = userSessions[s].answers
             /\ userSessions'[s].profile = result'.value]_vars

\* clearSession removed the record of s1, which held the profile object 1:
\* the profile of s2 is object 2 and object 1 is no longer reachable.
C24_Witness ==
  /\ result.op = "clearSession" /\ result.sessionId = "s1"
  /\ "s1" \notin DOMAIN userSessions
  /\ "s2" \in DOMAIN userSessions
  /\ userSessions["s2"].profile.ref = 2

\* C27: a submitAnswer call that fails with unknown-question or
\* unknown-option leaves the session store unchanged: it creates no record.
C27_FailedSubmitLeavesStore ==
  [][result'.op = "submitAnswer" /\ result'.error # "none"
       => userSessions' = userSessions]_vars

\* Every question of the catalog has an answer in session s.
AllAnswered(s) ==
  /\ s \in DOMAIN userSessions
  /\ \A q \in Range(questions) :
       \E a \in Range(userSessions[s].answers) : a.questionId = q.id

\* C28: isDiagnosticComplete(s) is true exactly when every question of the
\* catalog has an answer in s (false for a session the store does not hold),
\* and once every question is answered it stays so under every further
\* submitAnswer; only clearSession on s ends it.
C28_CompleteIffAllAnswered ==
  [][\A s \in SessionIds :
       /\ Called("isDiagnosticComplete", s) => result'.value = AllAnswered(s)
       /\ AllAnswered(s) /\ result'.op = "submitAnswer" => AllAnswered(s)'
       /\ AllAnswered(s) /\ ~AllAnswered(s)' => Called("clearSession", s)]_vars

\* A submitAnswer succeeded on a complete session after its profile was
\* computed from a complete list of answers: the session is still complete.
C28_Witness ==
  \E s \in SessionIds :
    /\ AllAnswered(s)
    /\ result.op = "submitAnswer" /\ result.sessionId = s /\ result.error = "none"
    /\ userSessions[s].profile # NoProfile
    /\ Len(userSessions[s].profile.answers) = Len(questions)
    /\ userSessions[s].profile.answers # userSessions[s].answers

\* C25: POST /api/answers requests for one session, handled in any order,
\* lose no update: a request that succeeds leaves in the answer list every
\* answer to another question that was there, and adds its own.
C25_NoLostAnswer ==
  [][result'.op = "POST /answers" /\ result'.error = "none"
       => LET s == result'.sessionId
              before == IF s \in DOMAIN userSessions
                        THEN userSessions[s].answers ELSE <<>>
              after == userSessions'[s].answers
          IN  /\ \A a \in Range(before) :
                   \/ a \in Range(after)
                   \/ a.questionId = after[Len(after)].questionId
              /\ after = result'.value.answers
              /\ FindQuestion(after[Len(after)].questionId) # 0]_vars

\* Two requests for s1 with different questions were handled: the list holds
\* both answers.
C25_Witness ==
  /\ result.op = "POST /answers" /\ result.sessionId = "s1" /\ result.error = "none"
  /\ Len(userSessions["s1"].answers) = 2
  /\ userSessions["s1"].answers[1].questionId # userSessions["s1"].answers[2].questionId

\* The station of the original catalog with the id of the last retrieval.
OriginalStation ==
  CHOOSE st \in Range(IsolationCatalog) : st.id = result.args

\* C26: whatever callers assigned to the stations, feature objects and
\* arrays they were handed, a later retrieval and calculateScores see the
\* values of the original catalog.
C26_StationDataIsolated ==
  /\ result.op = "getAllStations" /\ ~result.written =>
       result.value = IsolationCatalog
  /\ /\ result.op \in {"getStationById", "getStationFeatures"}
     /\ ~result.written
     /\ result.args \in {st.id : st \in Range(IsolationCatalog)}
     => result.value = (IF result.op = "getStationById" THEN OriginalStation
                        ELSE OriginalStation.features)
  /\ Returned("calculateScores") =>
       result.value = CalculateScoresCall(IsolationCatalog, result.args)

\* The second station of the catalog is the first with rating r raised by one.
RaisedIn(r) ==
  /\ Len(stations) = 2
  /\ RatingOf(stations[1], r) < Len(Lines)
  /\ stations[2] =
       WithId(WithRating(stations[1], r, RatingOf(stations[1], r) + 1),
              stations[2].id)

\* C29: under one profile, a station whose only difference is one benefit
\* rating raised by one never scores lower, and a station whose only
\* difference is rentLevel, costOfLiving or diningCost raised by one never
\* scores higher.
C29_ScoreMonotone ==
  Returned("calculateScores") =>
    \A r \in RatingNames :
      RaisedIn(r) =>
        IF r \in CostRatings
        THEN ~Less(result.value[stations[1].id], result.value[stations[2].id])
        ELSE ~Less(result.value[stations[2].id], result.value[stations[1].id])

\* A raised cost rating lowered the score strictly.
C29_Witness ==
  /\ Returned("calculateScores")
  /\ \E r \in CostRatings :
       /\ RaisedIn(r)
       /\ Less(result.value[stations[2].id], result.value[stations[1].id])

\* C30: while the slice holds questions, currentQuestionIndex is the index
\* of one of them, whatever actions were dispatched.
C30_IndexWithinQuestions ==
  Len(diagnostic.questions) > 0 =>
    /\ 0 <= diagnostic.currentQuestionIndex
    /\ diagnostic.currentQuestionIndex <= Len(diagnostic.questions) - 1

====
